---- MODULE Spec2Model ----
(***************************************************************************)
(* Model of the text-extraction service of project-record                  *)
(* (TextExtractionService: extractText, the PDF passes, the Word, Excel    *)
(* and image extractors, the text clean-up functions, isTextExtractable).  *)
(*                                                                         *)
(* A JavaScript string is modelled as a sequence of one-character strings, *)
(* so that trim(), endsWith(), toLowerCase() and the regular-expression    *)
(* replacements are computed character by character as the code does.      *)
(***************************************************************************)
EXTENDS Integers, Sequences, FiniteSets, TLC

(***************************************************************************)
(* Bounds of the model.                                                    *)
(***************************************************************************)
\* Largest number of pages of a modelled PDF document.
MaxPages == 2
\* Number of extractText calls made one after the other on the same file.
MaxCalls == 2
\* failedPages is kept up to this length (the code only logs it).
MaxFailed == 3
\* Largest number of sheets of a modelled workbook.
MaxSheets == 2
\* Longest text given to a clean-up function on its own.
MaxText == 3
\* Largest number of runs of a page given to processTextContent on its own.
MaxItems == 2

(***************************************************************************)
(* Characters and strings.                                                 *)
(***************************************************************************)
LowerSeq == <<"a","b","c","d","e","f","g","h","i","j","k","l","m",
              "n","o","p","q","r","s","t","u","v","w","x","y","z">>
UpperSeq == <<"A","B","C","D","E","F","G","H","I","J","K","L","M",
              "N","O","P","Q","R","S","T","U","V","W","X","Y","Z">>
DigitSeq == <<"0","1","2","3","4","5","6","7","8","9">>

Range(s) == {s[i] : i \in 1..Len(s)}

Lower == Range(LowerSeq)
Upper == Range(UpperSeq)
Digit == Range(DigitSeq)
\* \s of a JavaScript regular expression, and the characters trim() strips.
WS == {" ", "\t", "\n", "\r", "\f"}
\* \w of a JavaScript regular expression.
WordChar == Lower \cup Upper \cup Digit \cup {"_"}
SentenceEnd == {".", "!", "?"}

\* String.prototype.toLowerCase on one character.
LowerChar(c) ==
    IF c \in Upper THEN LowerSeq[CHOOSE i \in 1..26 : UpperSeq[i] = c] ELSE c

ToLowerCase(s) == [i \in 1..Len(s) |-> LowerChar(s[i])]

\* String.prototype.endsWith.
EndsWith(s, suffix) ==
    /\ Len(suffix) <= Len(s)
    /\ SubSeq(s, Len(s) - Len(suffix) + 1, Len(s)) = suffix

\* String.prototype.trim.
Trim(s) ==
    IF \A i \in 1..Len(s) : s[i] \in WS THEN <<>>
    ELSE SubSeq(s,
                CHOOSE i \in 1..Len(s) :
                    s[i] \notin WS /\ \A j \in 1..(i - 1) : s[j] \in WS,
                CHOOSE i \in 1..Len(s) :
                    s[i] \notin WS /\ \A j \in (i + 1)..Len(s) : s[j] \in WS)

\* n copies of the character c.
Rep(c, n) == [i \in 1..n |-> c]

\* The decimal digits of a page number (template literal `${pageNum}`).
RECURSIVE NumStr(_)
NumStr(n) ==
    IF n < 10 THEN <<DigitSeq[n + 1]>>
    ELSE NumStr(n \div 10) \o <<DigitSeq[(n % 10) + 1]>>

\* Array.prototype.join(sep) on a sequence of strings.
RECURSIVE Join(_, _)
Join(strs, sep) ==
    IF strs = <<>> THEN <<>>
    ELSE IF Len(strs) = 1 THEN strs[1]
    ELSE strs[1] \o sep \o Join(Tail(strs), sep)

(***************************************************************************)
(* Regular-expression replacements used by the clean-up functions.  Each   *)
(* global replace is computed as the text each character of the input      *)
(* turns into, the pieces being concatenated in order.                     *)
(***************************************************************************)
\* Concatenation of pieces[lo..hi].
RECURSIVE ConcatRange(_, _, _)
ConcatRange(pieces, lo, hi) ==
    IF lo > hi THEN <<>>
    ELSE IF lo = hi THEN pieces[lo]
    ELSE LET mid == (lo + hi) \div 2
         IN  ConcatRange(pieces, lo, mid) \o ConcatRange(pieces, mid + 1, hi)

Concat(pieces) == ConcatRange(pieces, 1, Len(pieces))

\* A clean-up that leaves runs of whitespace as they are.
KeepWhitespace(s) == s

\* replace(/\s+/g, ' '): the first character of a whitespace run becomes a
\* space, the others disappear.
CollapseWhitespace(s) ==
    Concat([i \in 1..Len(s) |->
        IF s[i] \notin WS THEN <<s[i]>>
        ELSE IF i > 1 /\ s[i - 1] \in WS THEN <<>>
        ELSE <<" ">>])

\* replace(/([A])([B])/g, '$1 $2') for disjoint character classes A and B:
\* matches cannot overlap, so every B that follows an A gets a space before it.
InsertSpace(s, A, B) ==
    Concat([i \in 1..Len(s) |->
        IF i > 1 /\ s[i - 1] \in A /\ s[i] \in B THEN <<" ", s[i]>> ELSE <<s[i]>>])

\* replace(/[c]/g, d)
ReplaceChar(s, c, d) == [i \in 1..Len(s) |-> IF s[i] = c THEN d ELSE s[i]]

\* First and last index of the maximal run of characters of C around i.
RunStart(s, i, C) ==
    CHOOSE j \in 1..i :
        /\ \A k \in j..i : s[k] \in C
        /\ j = 1 \/ s[j - 1] \notin C
RunEnd(s, i, C) ==
    CHOOSE j \in i..Len(s) :
        /\ \A k \in i..j : s[k] \in C
        /\ j = Len(s) \/ s[j + 1] \notin C

\* replace(/\n\s*\n\s*\n/g, '\n\n'): in a whitespace run with at least three
\* newlines the match goes from its first newline to its last one (\s* is
\* greedy); what follows the match in the run holds no newline.
CollapseNewlines(s) ==
    Concat([i \in 1..Len(s) |->
        IF s[i] \notin WS THEN <<s[i]>>
        ELSE LET lo == RunStart(s, i, WS)
                 hi == RunEnd(s, i, WS)
                 nls == {k \in lo..hi : s[k] = "\n"}
             IN  IF Cardinality(nls) < 3 THEN <<s[i]>>
                 ELSE LET first == CHOOSE k \in nls : \A m \in nls : k <= m
                          last == CHOOSE k \in nls : \A m \in nls : m <= k
                      IN  IF i = first THEN <<"\n", "\n">>
                          ELSE IF first < i /\ i <= last THEN <<>>
                          ELSE <<s[i]>>])

\* replace(/\bD+(\w)/g, R + '$1') for a digit D: a run of D that starts at a
\* word boundary is replaced by R when a word character follows it, and by
\* R and one D when it has two D or more and no word character follows.
ReplaceLeadingRun(s, D, R) ==
    Concat([i \in 1..Len(s) |->
        IF s[i] # D THEN <<s[i]>>
        ELSE LET lo == RunStart(s, i, {D})
                 hi == RunEnd(s, i, {D})
                 atBoundary == lo = 1 \/ s[lo - 1] \notin WordChar
                 wordFollows == hi < Len(s) /\ s[hi + 1] \in WordChar
             IN  IF ~atBoundary THEN <<s[i]>>
                 ELSE IF wordFollows THEN (IF i = lo THEN <<R>> ELSE <<>>)
                 ELSE IF hi > lo THEN (IF i = lo THEN <<R>> ELSE IF i = hi THEN <<D>> ELSE <<>>)
                 ELSE <<s[i]>>])

(***************************************************************************)
(* The clean-up functions.                                                 *)
(***************************************************************************)
\* cleanExtractedText
cleanExtractedText(text) ==
    LET s1 == CollapseWhitespace(text)
        s2 == InsertSpace(s1, Lower, Upper)
        s3 == InsertSpace(s2, SentenceEnd, Upper)
        s4 == InsertSpace(s3, Lower, Digit)
        s5 == InsertSpace(s4, Digit, Upper)
        s6 == CollapseNewlines(s5)
    IN  Trim(s6)

\* cleanOCRText
cleanOCRText(text) ==
    LET s1 == InsertSpace(text, Lower, Upper)
        s2 == InsertSpace(s1, Lower, Digit)
        s3 == InsertSpace(s2, Digit, Upper)
        s4 == InsertSpace(s3, SentenceEnd, Upper)
        s5 == ReplaceChar(s4, "|", "I")
        s6 == ReplaceChar(s5, "0", "O")
        s7 == ReplaceLeadingRun(s6, "0", "O")
        s8 == ReplaceChar(s7, "1", "l")
        s9 == ReplaceLeadingRun(s8, "1", "l")
        s10 == CollapseWhitespace(s9)
        s11 == CollapseNewlines(s10)
    IN  Trim(s11)

(***************************************************************************)
(* Program constants.                                                      *)
(***************************************************************************)
\* extractText: file.size > 10 * 1024 * 1024
LARGE_PDF_BYTES == 10485760
\* extractText: extractedText.length < 100
ALTERNATIVE_BELOW == 100
\* extractText: extractedText.length < 50
OCR_BELOW == 50
\* extractFromPDF: extractedText.length < 10
APPROACH2_BELOW == 10
\* extractFromPDF: const maxRetries = 1
maxRetries == 1
\* processTextContent: Math.abs(aY - bY) > 5
PRIMARY_LINE_TOLERANCE == 5
\* extractFromPDFAlternative: Math.abs(aY - bY) > 10
ALTERNATIVE_LINE_TOLERANCE == 10
\* extractFromPDFWithOCR: Pass 1 .. Pass 4
OCR_PASSES == 4

(***************************************************************************)
(* Text items of a page (textContent.items).  A text run has a str and a   *)
(* transform whose entries [4] and [5] are x and y; a marked-content item  *)
(* has neither.                                                            *)
(***************************************************************************)
TextItem(str, x, y) ==
    [hasStr |-> TRUE, str |-> str, hasTransform |-> TRUE, x |-> x, y |-> y]
MarkItem ==
    [hasStr |-> FALSE, str |-> <<>>, hasTransform |-> FALSE, x |-> 0, y |-> 0]

\* 'str' in item && item.str
HasText(item) == item.hasStr /\ item.str # <<>>
\* 'str' in item && item.str && item.str.trim().length > 0
HasVisibleText(item) == HasText(item) /\ Len(Trim(item.str)) > 0

Abs(n) == IF n < 0 THEN -n ELSE n

\* The comparator of the position sorts: negative when a goes before b.
ItemCompare(a, b, tolerance) ==
    LET aY == IF a.hasTransform THEN a.y ELSE 0
        bY == IF b.hasTransform THEN b.y ELSE 0
        aX == IF a.hasTransform THEN a.x ELSE 0
        bX == IF b.hasTransform THEN b.x ELSE 0
    IN  IF Abs(aY - bY) > tolerance THEN bY - aY ELSE aX - bX

\* Array.prototype.sort with the comparator above, as a stable insertion
\* sort: each item is placed after the last item that does not compare
\* greater than it.
RECURSIVE InsertItem(_, _, _)
InsertItem(sorted, item, tolerance) ==
    IF sorted = <<>> THEN <<item>>
    ELSE LET n == Len(sorted)
         IN  IF ItemCompare(sorted[n], item, tolerance) > 0
             THEN Append(InsertItem(SubSeq(sorted, 1, n - 1), item, tolerance), sorted[n])
             ELSE Append(sorted, item)

RECURSIVE SortItems(_, _)
SortItems(items, tolerance) ==
    IF items = <<>> THEN <<>>
    ELSE InsertItem(SortItems(SubSeq(items, 1, Len(items) - 1), tolerance),
                    items[Len(items)], tolerance)

Strs(items) == [i \in 1..Len(items) |-> items[i].str]

\* texts.reduce((best, current) => current.length > best.length ? current : best)
RECURSIVE ReduceLongest(_, _)
ReduceLongest(best, texts) ==
    IF texts = <<>> THEN best
    ELSE ReduceLongest(IF Len(texts[1]) > Len(best) THEN texts[1] ELSE best, Tail(texts))

PickLongest(texts) == ReduceLongest(texts[1], Tail(texts))

\* processTextContent: the three candidates of the primary pass.
standardText(items) == Join(Strs(SelectSeq(items, HasVisibleText)), <<" ">>)
\* A position-sorted candidate joined with two spaces, which is longer than
\* the standard candidate whenever the page has two visible runs.
enhancedTextWide(items) ==
    Join(Strs(SortItems(SelectSeq(items, HasVisibleText), PRIMARY_LINE_TOLERANCE)), <<" ", " ">>)
enhancedText(items) ==
    Join(Strs(SortItems(SelectSeq(items, HasVisibleText), PRIMARY_LINE_TOLERANCE)), <<" ">>)
rawText(items) == Join(Strs(SelectSeq(items, HasText)), <<" ">>)

processTextContent(items) ==
    cleanExtractedText(
        PickLongest(<<standardText(items), enhancedText(items), rawText(items)>>))

\* extractFromPDFAlternative: the three candidates and the page text.
originalText(items) == Join(Strs(SelectSeq(items, HasText)), <<>>)
spacedText(items) == Join(Strs(SelectSeq(items, HasText)), <<" ">>)
positionText(items) ==
    Join(Strs(SortItems(SelectSeq(items, HasText), ALTERNATIVE_LINE_TOLERANCE)), <<" ">>)

alternativePageText(items) ==
    cleanExtractedText(
        PickLongest(<<originalText(items), spacedText(items), positionText(items)>>))

(***************************************************************************)
(* Delimiter headers.                                                      *)
(***************************************************************************)
Dashes == <<"-", "-", "-">>
PageWord == <<"P", "a", "g", "e">>
OcrTag == <<"(", "O", "C", "R", ")">>
SheetWord == <<"S", "h", "e", "e", "t", ":">>

\* `--- Page ${pageNum} ---`
PageHeader(pageNum) == Dashes \o <<" ">> \o PageWord \o <<" ">> \o NumStr(pageNum) \o <<" ">> \o Dashes
\* An OCR pass that writes the header of the text-layer passes.
OcrPageHeaderPlain(pageNum) == PageHeader(pageNum)
\* `--- Page ${pageNum} (OCR) ---`
OcrPageHeader(pageNum) ==
    Dashes \o <<" ">> \o PageWord \o <<" ">> \o NumStr(pageNum) \o <<" ">> \o OcrTag \o <<" ">> \o Dashes
\* `--- Sheet: ${sheetName} ---`
SheetHeader(sheetName) == Dashes \o <<" ">> \o SheetWord \o <<" ">> \o sheetName \o <<" ">> \o Dashes

\* `\n${header}\n${text}\n`, the block appended to fullText / extractedText.
Block(header, text) == <<"\n">> \o header \o <<"\n">> \o text \o <<"\n">>


(***************************************************************************)
(* Format classification.                                                  *)
(***************************************************************************)
DotPdf == <<".", "p", "d", "f">>
DotDocx == <<".", "d", "o", "c", "x">>
DotDoc == <<".", "d", "o", "c">>
DotXlsx == <<".", "x", "l", "s", "x">>
DotXls == <<".", "x", "l", "s">>
DotPng == <<".", "p", "n", "g">>
DotJpg == <<".", "j", "p", "g">>
DotJpeg == <<".", "j", "p", "e", "g">>

IsPdfFile(f) ==
    \/ f.type = "application/pdf"
    \/ EndsWith(ToLowerCase(f.name), DotPdf)

IsWordFile(f) ==
    \/ f.type = "application/vnd.openxmlformats-officedocument.wordprocessingml.document"
    \/ f.type = "application/msword"
    \/ EndsWith(ToLowerCase(f.name), DotDocx)
    \/ EndsWith(ToLowerCase(f.name), DotDoc)

IsExcelFile(f) ==
    \/ f.type = "application/vnd.openxmlformats-officedocument.spreadsheetml.sheet"
    \/ f.type = "application/vnd.ms-excel"
    \/ EndsWith(ToLowerCase(f.name), DotXlsx)
    \/ EndsWith(ToLowerCase(f.name), DotXls)

IsImageFile(f) ==
    \/ f.type = "image/png"
    \/ f.type = "image/jpeg"
    \/ f.type = "image/jpg"
    \/ EndsWith(ToLowerCase(f.name), DotPng)
    \/ EndsWith(ToLowerCase(f.name), DotJpg)
    \/ EndsWith(ToLowerCase(f.name), DotJpeg)

\* The branch extractText takes: its if-statements in source order.
\* The if-chain without the 'image/jpg' media type in its image test.
ClassifyWithoutJpgType(f) ==
    IF IsPdfFile(f) THEN "pdf"
    ELSE IF IsWordFile(f) THEN "word"
    ELSE IF IsExcelFile(f) THEN "excel"
    ELSE IF \/ f.type = "image/png"
            \/ f.type = "image/jpeg"
            \/ EndsWith(ToLowerCase(f.name), DotPng)
            \/ EndsWith(ToLowerCase(f.name), DotJpg)
            \/ EndsWith(ToLowerCase(f.name), DotJpeg)
    THEN "image"
    ELSE "unsupported"

Classify(f) ==
    IF IsPdfFile(f) THEN "pdf"
    ELSE IF IsWordFile(f) THEN "word"
    ELSE IF IsExcelFile(f) THEN "excel"
    ELSE IF IsImageFile(f) THEN "image"
    ELSE "unsupported"

\* isTextExtractable
isTextExtractable(f) ==
    \/ f.type = "application/pdf"
    \/ EndsWith(ToLowerCase(f.name), DotPdf)
    \/ f.type = "application/vnd.openxmlformats-officedocument.wordprocessingml.document"
    \/ f.type = "application/msword"
    \/ EndsWith(ToLowerCase(f.name), DotDocx)
    \/ EndsWith(ToLowerCase(f.name), DotDoc)
    \/ f.type = "application/vnd.openxmlformats-officedocument.spreadsheetml.sheet"
    \/ f.type = "application/vnd.ms-excel"
    \/ EndsWith(ToLowerCase(f.name), DotXlsx)
    \/ EndsWith(ToLowerCase(f.name), DotXls)
    \/ f.type = "image/png"
    \/ f.type = "image/jpeg"
    \/ f.type = "image/jpg"
    \/ EndsWith(ToLowerCase(f.name), DotPng)
    \/ EndsWith(ToLowerCase(f.name), DotJpg)
    \/ EndsWith(ToLowerCase(f.name), DotJpeg)

(***************************************************************************)
(* Decisions of extractText on the results of the passes.                  *)
(***************************************************************************)
\* A size test that takes a file of exactly the threshold as large.
IsLargePdfInclusive(f) == f.size >= LARGE_PDF_BYTES
\* file.size > 10 * 1024 * 1024
IsLargePdf(f) == f.size > LARGE_PDF_BYTES
\* quickCheck === 0
QuickCheckSaysScanned(count) == count = 0
\* extractedText.length < 100
NeedsAlternative(text) == Len(text) < ALTERNATIVE_BELOW
\* A later result that replaces the earlier one when it is as long.
ReplacesOnTie(candidate, text) == Len(candidate) >= Len(text)
\* alternativeText.length > extractedText.length, ocrText.length > extractedText.length
Replaces(candidate, text) == Len(candidate) > Len(text)
\* extractedText.length < 50
NeedsOcr(text) == Len(text) < OCR_BELOW
\* catch (error) { ...; return ''; } of extractText
\* A catch block that rethrows the error instead of returning ''.
ExtractTextRethrow == [outcome |-> "rejected", value |-> <<>>]

\* catch (error) { ...; return ''; } of extractText
ExtractTextCatch == [outcome |-> "fulfilled", value |-> <<>>]

\* while (retryCount <= maxRetries && !pageText.trim())
PrimaryLoopAgain(rc, text) == rc <= maxRetries /\ Len(Trim(text)) = 0
\* A page block appended whatever the page gave.
EmitsAlways(text) == TRUE
\* if (pageText.trim().length > 0), if (finalText.trim().length > 0)
EmitsPage(text) == Len(Trim(text)) > 0
\* Approach 2 run whatever approach 1 gave.
NeedsApproach2Always(text) == TRUE
\* if (extractedText.length < 10)
NeedsApproach2(text) == Len(text) < APPROACH2_BELOW
\* A recognition attempt that replaces the best so far when it is as good.
BetterOcrOnTie(text, score) == Len(Trim(text)) >= score
\* if (textN.trim().length > bestScore)
BetterOcr(text, score) == Len(Trim(text)) > score
\* A result handed back as it is.
PassResultUntrimmed(text) == text
\* const result = fullText.trim() / extractedText.trim(), and text.trim()
PassResult(text) == Trim(text)
\* resolve(extractedText) of extractFromWord
WordResult(value) == value


(***************************************************************************)
(* Inputs: files, and what the parsing and OCR libraries find in them.     *)
(***************************************************************************)
NoOcr == <<<<>>, <<>>, <<>>, <<>>>>

\* What the libraries find on a page of each kind: the items of
\* getTextContent with and without marked content, and the texts of the four
\* recognition passes on the rendered page.
\* A page with no text layer and nothing recognisable.
PageBlank == [marked |-> <<MarkItem>>, plain |-> <<>>, ocr |-> NoOcr]
\* Scanned pages: no text layer, text found by recognition only.
PageScanned ==
    [marked |-> <<>>, plain |-> <<>>,
     ocr |-> << <<" ", "H", "|", "\n">>, <<"x", "0", " ", "1">>, <<>>, <<"a", "b", " ", "c">> >>]
PageScannedLong ==
    [marked |-> <<>>, plain |-> <<>>,
     ocr |-> << Rep("a", 60), <<>>, Rep("b", 120), <<" ">> >>]
\* A short text layer: runs delivered bottom line first, with a
\* whitespace-only run between them.
PageShort ==
    [marked |-> <<MarkItem, TextItem(<<"b">>, 0, 10), TextItem(<<" ">>, 0, 50),
                  TextItem(<<"a", "B", "1">>, 0, 100)>>,
     plain |-> <<TextItem(<<"b">>, 0, 10), TextItem(<<" ">>, 0, 50),
                 TextItem(<<"a", "B", "1">>, 0, 100)>>,
     ocr |-> << <<"a", "b", "c">>, <<>>, <<>>, <<>> >>]
PageMedium ==
    [marked |-> <<TextItem(Rep("a", 40), 0, 700)>>,
     plain |-> <<TextItem(Rep("a", 40), 0, 700)>>,
     ocr |-> NoOcr]
\* Text only in the representation without marked content.
PagePlainOnly ==
    [marked |-> <<MarkItem>>, plain |-> <<TextItem(Rep("c", 12), 0, 700)>>, ocr |-> NoOcr]

PageKinds == {"blank", "scanned", "scannedLong", "short", "medium", "plainOnly"}

Page(kind) ==
    CASE kind = "blank" -> PageBlank
      [] kind = "scanned" -> PageScanned
      [] kind = "scannedLong" -> PageScannedLong
      [] kind = "short" -> PageShort
      [] kind = "medium" -> PageMedium
      [] kind = "plainOnly" -> PagePlainOnly

\* Sequences over S of length at most n.
SeqUpTo(S, n) == UNION {[1..k -> S] : k \in 0..n}

PdfDocs == SeqUpTo(PageKinds, MaxPages)

\* mammoth.extractRawText(...).value
WordTexts ==
    { <<>>, <<"H", "i">>, <<"H", "i", "\n", "\n">>, <<"\n", "H", "i", " ", "B">> }

\* Tesseract.recognize(...).data.text for a standalone image
ImageTexts == { <<>>, <<" ", "H", "|", " ", "\n">>, <<"a", "b">> }

\* Sheets: name, whether workbook.Sheets[name] exists, XLSX.utils.sheet_to_txt, and
\* whether the workbook marks the sheet hidden (which the code never looks at).
SheetAlpha ==
    [name |-> <<"A">>, present |-> TRUE, hidden |-> FALSE, text |-> <<"x", "\t", "y", "\n">>]
SheetBeta == [name |-> <<"B">>, present |-> TRUE, hidden |-> FALSE, text |-> <<"z">>]
SheetEmpty == [name |-> <<"E">>, present |-> TRUE, hidden |-> FALSE, text |-> <<" ", "\n">>]
SheetMissing == [name |-> <<"M">>, present |-> FALSE, hidden |-> FALSE, text |-> <<>>]
SheetHidden == [name |-> <<"H">>, present |-> TRUE, hidden |-> TRUE, text |-> <<"h", " ">>]
SheetKinds == {SheetAlpha, SheetBeta, SheetEmpty, SheetMissing, SheetHidden}

Workbooks ==
    {w \in SeqUpTo(SheetKinds, MaxSheets) :
        \A i, j \in 1..Len(w) : i # j => w[i].name # w[j].name}

MediaTypes ==
    { "application/pdf",
      "application/vnd.openxmlformats-officedocument.wordprocessingml.document",
      "application/msword",
      "application/vnd.openxmlformats-officedocument.spreadsheetml.sheet",
      "application/vnd.ms-excel",
      "image/png", "image/jpeg", "image/jpg",
      "text/plain", "" }

FileNames ==
    { <<"a">> \o DotPdf, <<"R", ".", "P", "D", "F">>,
      <<"a">> \o DotDocx, <<"a">> \o DotDoc,
      <<"a">> \o DotXlsx, <<"a">> \o DotXls,
      <<"a">> \o DotPng, <<"a">> \o DotJpg, <<"a">> \o DotJpeg,
      <<"a", ".", "t", "x", "t">>, <<"p", "d", "f">>, <<"a">> \o DotPdf \o <<".", "g", "z">> }

File(type, name, size, pages, word, sheets, image) ==
    [type |-> type, name |-> name, size |-> size,
     pages |-> pages, word |-> word, sheets |-> sheets, image |-> image]

\* Every media type with every name, on one fixed content.
GridFiles ==
    { File(t, n, LARGE_PDF_BYTES, <<"medium">>, <<"H", "i">>, <<SheetAlpha>>, <<"a", "b">>) :
        t \in MediaTypes, n \in FileNames }
\* PDF files of every modelled content, at the size threshold and above it.
PdfFiles ==
    { File("application/pdf", <<"a">> \o DotPdf, sz, d, <<>>, <<>>, <<>>) :
        sz \in {LARGE_PDF_BYTES, LARGE_PDF_BYTES + 1}, d \in PdfDocs }
WordFiles ==
    { File("application/msword", <<"a">> \o DotDoc, LARGE_PDF_BYTES, <<>>, w, <<>>, <<>>) :
        w \in WordTexts }
ExcelFiles ==
    { File("application/vnd.ms-excel", <<"a">> \o DotXls, LARGE_PDF_BYTES, <<>>, <<>>, w, <<>>) :
        w \in Workbooks }
ImageFiles ==
    { File("image/png", <<"a">> \o DotPng, LARGE_PDF_BYTES, <<>>, <<>>, <<>>, t) :
        t \in ImageTexts }

Files == GridFiles \cup PdfFiles \cup WordFiles \cup ExcelFiles \cup ImageFiles


(***************************************************************************)
(* State.                                                                  *)
(***************************************************************************)
VARIABLES
    file,           \* the File given to extractText
    plan,           \* which library calls may throw
    call,           \* number of the running extractText call
    results,        \* outcomes of the earlier calls on the same file
    pc,             \* where extractText stands
    branch,         \* the category branch extractText took
    extractedText,  \* local of extractText
    outcome,        \* the promise extractText returned: pending, fulfilled, rejected
    result,         \* the string it was fulfilled with
    passName,       \* the extractor running: quick, primary, alt, ocr, word, excel, image
    ppc,            \* where the extractor stands
    promise,        \* the promise of the extractor: pending, resolved, rejected
    promiseValue,   \* the string it resolved with
    quickCount,     \* the number quickPDFTextCheck resolved with
    pageNum,        \* loop variable of the PDF passes
    retryCount,     \* extractFromPDF
    attemptText,    \* extractFromPDF: extractedText between approach 1 and approach 2
    fullText,       \* accumulated text of the running PDF pass
    failedPages,    \* extractFromPDF
    bestText,       \* extractFromPDFWithOCR
    bestScore,      \* extractFromPDFWithOCR
    ocrPass,        \* which recognition pass of the page comes next
    pdf,            \* the document handle of the running pass: none, open, destroyed
    invoked,        \* extractors invoked in this call, in order
    reads,          \* file reads started in this call
    caught,         \* whether the catch block of extractText ran in this call
    other,          \* the locals of a second extractText call while this one runs
    pair,           \* the two files of two concurrent calls
    input,          \* a function of the service applied on its own: its name and argument
    output,         \* what it returned
    upload,         \* where the call of uploadDocument for the file stands
    database,       \* the document records pushed to the database, in order
    storage,        \* the paths of the storage bucket that hold a file
    deletion        \* where the call of deleteDocument stands, and its locals

vars ==
    <<file, plan, call, results, pc, branch, extractedText, outcome, result,
      passName, ppc, promise, promiseValue, quickCount, pageNum, retryCount,
      attemptText, fullText, failedPages, bestText, bestScore, ocrPass,
      pdf, invoked, reads, caught, other, pair, input, output,
      upload, database, storage, deletion>>

appVars == <<upload, database, storage, deletion>>
callVars == <<file, plan, call, results, other, pair, input, output, appVars>>
mainVars == <<pc, branch, extractedText, outcome, result, invoked, caught>>
ocrVars == <<bestText, bestScore, ocrPass>>
primaryVars == <<retryCount, attemptText, failedPages>>

numPages == Len(file.pages)
PdfPasses == {"quick", "primary", "alt", "ocr"}

(***************************************************************************)
(* Library failures.  Under the free plan every library call may return or *)
(* throw; under a fixed plan the call named by the key always throws and   *)
(* every other call returns.                                               *)
(***************************************************************************)
FreePlan == [free |-> TRUE, key |-> <<"none", "none", 0>>]
FixedPlan(p, op, n) == [free |-> FALSE, key |-> <<p, op, n>>]

MayThrow(p, op, n) == plan.free \/ plan.key = <<p, op, n>>
MayReturn(p, ops, n) == plan.free \/ \A op \in ops : plan.key # <<p, op, n>>

\* The sheets whose sheet_to_txt throws.
SheetFailSets ==
    IF plan.free THEN SUBSET (1..Len(file.sheets))
    ELSE {{i \in 1..Len(file.sheets) : plan.key = <<"excel", "sheet", i>>}}

(***************************************************************************)
(* Pieces shared by the actions.                                           *)
(***************************************************************************)
\* processTextContent, alternativePageText and cleanOCRText on every input the
\* modelled files can give them, worked out once.
AllItemLists == {Page(k).marked : k \in PageKinds} \cup {Page(k).plain : k \in PageKinds}
AllOcrTexts == {Page(k).ocr[i] : k \in PageKinds, i \in 1..OCR_PASSES} \cup {<<>>}
ProcessedTexts == [items \in AllItemLists |-> processTextContent(items)] @@ <<>>
AlternativeTexts == [items \in AllItemLists |-> alternativePageText(items)] @@ <<>>
CleanedOcrTexts == [text \in AllOcrTexts |-> cleanOCRText(text)] @@ <<>>

\* A pass that starts from the text the pass before it left behind.
StaleFullText == fullText

\* let fullText = '' (a local of each pass)
FreshFullText == <<>>

\* failedPages.push(pageNum)
Push(fp, n) == IF Len(fp) < MaxFailed THEN Append(fp, n) ELSE fp

\* pdf.destroy()
Destroyed == "destroyed"

\* An extractor is called: the executor of its promise sets up the reader.
StartPass(name) ==
    /\ passName' = name
    /\ ppc' = "read"
    /\ promise' = "pending"
    /\ promiseValue' = <<>>
    /\ quickCount' = 0
    /\ pageNum' = 0
    /\ retryCount' = 0
    /\ attemptText' = <<>>
    /\ fullText' = FreshFullText
    /\ failedPages' = <<>>
    /\ bestText' = <<>>
    /\ bestScore' = 0
    /\ ocrPass' = 0
    /\ pdf' = "none"
    /\ invoked' = Append(invoked, name)

\* No extractor is running (fullText keeps what the last pass left in it).
NoPass ==
    /\ passName' = "none"
    /\ ppc' = "idle"
    /\ promise' = "none"
    /\ promiseValue' = <<>>
    /\ quickCount' = 0
    /\ pageNum' = 0
    /\ retryCount' = 0
    /\ attemptText' = <<>>
    /\ UNCHANGED fullText
    /\ failedPages' = <<>>
    /\ bestText' = <<>>
    /\ bestScore' = 0
    /\ ocrPass' = 0
    /\ pdf' = "none"

\* resolve(value)
Resolve(value) ==
    /\ promise' = "resolved"
    /\ promiseValue' = value
    /\ ppc' = "settled"

\* return value, from extractText
Return(value) ==
    /\ outcome' = "fulfilled"
    /\ result' = value
    /\ pc' = "done"
    /\ UNCHANGED caught
    /\ NoPass

\* The awaited promise rejected: the catch block of extractText runs.
Catch ==
    /\ outcome' = ExtractTextCatch.outcome
    /\ result' = ExtractTextCatch.value
    /\ pc' = "done"
    /\ caught' = TRUE
    /\ NoPass

\* The state before the first call, for a file, a plan and the files of two
\* concurrent calls (none when the calls come one after the other).
InitLocals(f, p, fs) ==
    /\ file = f
    /\ plan = p
    /\ call = 1
    /\ results = <<>>
    /\ pc = "start"
    /\ branch = "none"
    /\ extractedText = <<>>
    /\ outcome = "pending"
    /\ result = <<>>
    /\ passName = "none"
    /\ ppc = "idle"
    /\ promise = "none"
    /\ promiseValue = <<>>
    /\ quickCount = 0
    /\ pageNum = 0
    /\ retryCount = 0
    /\ attemptText = <<>>
    /\ fullText = <<>>
    /\ failedPages = <<>>
    /\ bestText = <<>>
    /\ bestScore = 0
    /\ ocrPass = 0
    /\ pdf = "none"
    /\ invoked = <<>>
    /\ reads = 0
    /\ caught = FALSE
    /\ other = <<>>
    /\ pair = fs

\* No call of deleteDocument has been made.
NoDeletion == [pc |-> "idle"]

InitOf(f, p, fs) ==
    /\ InitLocals(f, p, fs)
    /\ input = <<>>
    /\ output = <<>>
    /\ upload = "idle"
    /\ database = <<>>
    /\ storage = {}
    /\ deletion = NoDeletion

InitWith(f, p) == InitOf(f, p, <<>>)

Init == \E f \in Files : InitWith(f, FreePlan)

(***************************************************************************)
(* extractText.                                                            *)
(***************************************************************************)
\* extractText up to its first await (or its return for an unsupported file).
ExtractText ==
    /\ pc = "start"
    /\ LET b == Classify(file)
       IN  /\ branch' = b
           /\ extractedText' = <<>>
           /\ IF b = "pdf"
              THEN /\ StartPass(IF IsLargePdf(file) THEN "quick" ELSE "primary")
                   /\ pc' = IF IsLargePdf(file) THEN "await_quick" ELSE "await_first"
                   /\ UNCHANGED <<outcome, result, caught>>
              ELSE IF b \in {"word", "excel", "image"}
              THEN /\ StartPass(b)
                   /\ pc' = "await_simple"
                   /\ UNCHANGED <<outcome, result, caught>>
              ELSE /\ Return(<<>>)
                   /\ UNCHANGED invoked
    /\ UNCHANGED <<callVars, reads>>

\* const quickCheck = await this.quickPDFTextCheck(file)
AwaitQuickCheck ==
    /\ pc = "await_quick"
    /\ promise \in {"resolved", "rejected"}
    /\ IF promise = "rejected"
       THEN Catch /\ UNCHANGED invoked
       ELSE /\ StartPass(IF QuickCheckSaysScanned(quickCount) THEN "ocr" ELSE "primary")
            /\ pc' = "await_first"
            /\ UNCHANGED <<outcome, result, caught>>
    /\ UNCHANGED <<callVars, branch, extractedText, reads>>

\* extractedText = await this.extractFromPDF(file) / extractFromPDFWithOCR(file)
AwaitFirstPass ==
    /\ pc = "await_first"
    /\ promise \in {"resolved", "rejected"}
    /\ IF promise = "rejected"
       THEN Catch /\ UNCHANGED <<invoked, extractedText>>
       ELSE /\ extractedText' = promiseValue
            /\ IF NeedsAlternative(promiseValue)
               THEN /\ StartPass("alt")
                    /\ pc' = "await_alt"
                    /\ UNCHANGED <<outcome, result, caught>>
               ELSE /\ Return(promiseValue)
                    /\ UNCHANGED invoked
    /\ UNCHANGED <<callVars, branch, reads>>

\* const alternativeText = await this.extractFromPDFAlternative(file)
AwaitAlternative ==
    /\ pc = "await_alt"
    /\ promise \in {"resolved", "rejected"}
    /\ IF promise = "rejected"
       THEN Catch /\ UNCHANGED <<invoked, extractedText>>
       ELSE LET text == IF Replaces(promiseValue, extractedText)
                        THEN promiseValue ELSE extractedText
            IN  /\ extractedText' = text
                /\ IF NeedsOcr(text)
                   THEN /\ StartPass("ocr")
                        /\ pc' = "await_ocr"
                        /\ UNCHANGED <<outcome, result, caught>>
                   ELSE /\ Return(text)
                        /\ UNCHANGED invoked
    /\ UNCHANGED <<callVars, branch, reads>>

\* const ocrText = await this.extractFromPDFWithOCR(file)
AwaitOcrFallback ==
    /\ pc = "await_ocr"
    /\ promise \in {"resolved", "rejected"}
    /\ IF promise = "rejected"
       THEN Catch /\ UNCHANGED extractedText
       ELSE LET text == IF Replaces(promiseValue, extractedText)
                        THEN promiseValue ELSE extractedText
            IN  /\ extractedText' = text
                /\ Return(text)
    /\ UNCHANGED <<callVars, branch, invoked, reads>>

\* return await this.extractFromWord(file) / extractFromExcel / extractFromImage
AwaitSimple ==
    /\ pc = "await_simple"
    /\ promise \in {"resolved", "rejected"}
    /\ IF promise = "rejected" THEN Catch ELSE Return(promiseValue)
    /\ UNCHANGED <<callVars, branch, extractedText, invoked, reads>>


(***************************************************************************)
(* Steps shared by the extractors: reading the file, loading the document. *)
(***************************************************************************)
\* reader.readAsArrayBuffer(file) / readAsDataURL(file) and the reader's event.
ReadFile ==
    /\ ppc = "read"
    /\ reads' = reads + 1
    /\ \/ /\ MayReturn(passName, {"readError", "readThrow"}, 0)      \* reader.onload
          /\ ppc' = IF passName \in PdfPasses THEN "load"
                    ELSE IF passName = "image" THEN "recognize" ELSE "parse"
          /\ UNCHANGED <<promise, promiseValue>>
       \/ /\ MayThrow(passName, "readError", 0)                      \* reader.onerror
          /\ Resolve(<<>>)
       \/ /\ MayThrow(passName, "readThrow", 0)      \* the read call itself throws
          /\ IF passName = "image"
             THEN Resolve(<<>>)           \* inside the try block of extractFromImage
             ELSE /\ promise' = "rejected"           \* thrown in the promise executor
                  /\ promiseValue' = <<>>
                  /\ ppc' = "settled"
    /\ UNCHANGED <<callVars, mainVars, passName, quickCount, pageNum, primaryVars,
                   fullText, ocrVars, pdf>>

\* Leaving the page loop: fullText.trim(), pdf.destroy(), resolve(result).
FinishPdfPass(text) ==
    /\ pdf' = Destroyed
    /\ Resolve(PassResult(text))

\* const pdf = await loadingTask.promise, and entering the page loop.
LoadDocument ==
    /\ ppc = "load"
    /\ \/ /\ MayReturn(passName, {"load"}, 0)
          /\ IF passName = "quick" \/ numPages >= 1
             THEN /\ pdf' = "open"
                  /\ pageNum' = 1
                  /\ ppc' = "getPage"
                  /\ UNCHANGED <<promise, promiseValue>>
             ELSE /\ FinishPdfPass(fullText)
                  /\ UNCHANGED pageNum
       \/ /\ MayThrow(passName, "load", 0)
          /\ Resolve(<<>>)
          /\ UNCHANGED <<pdf, pageNum>>
    /\ UNCHANGED <<callVars, mainVars, passName, quickCount, primaryVars, fullText,
                   ocrVars, reads>>

(***************************************************************************)
(* quickPDFTextCheck.                                                      *)
(***************************************************************************)
\* const page = await pdf.getPage(1)
QuickGetPage ==
    /\ passName = "quick"
    /\ ppc = "getPage"
    /\ \/ /\ numPages >= 1
          /\ MayReturn("quick", {"getPage"}, 1)
          /\ ppc' = "getText"
          /\ UNCHANGED <<promise, promiseValue>>
       \/ /\ MayThrow("quick", "getPage", 1) \/ numPages = 0
          /\ Resolve(<<>>)                                  \* catch: resolve(0)
    /\ UNCHANGED <<callVars, mainVars, passName, quickCount, pageNum, primaryVars,
                   fullText, ocrVars, pdf, reads>>

\* const textContent = await page.getTextContent(); ...; pdf.destroy(); resolve(textCount)
QuickGetTextContent ==
    /\ passName = "quick"
    /\ ppc = "getText"
    /\ \/ /\ MayReturn("quick", {"getText"}, 1)
          /\ quickCount' = Len(Page(file.pages[1]).plain)
          /\ pdf' = Destroyed
          /\ Resolve(<<>>)
       \/ /\ MayThrow("quick", "getText", 1)
          /\ Resolve(<<>>)                                  \* catch: resolve(0)
          /\ UNCHANGED <<quickCount, pdf>>
    /\ UNCHANGED <<callVars, mainVars, passName, pageNum, primaryVars, fullText,
                   ocrVars, reads>>

(***************************************************************************)
(* extractFromPDF, the primary pass.                                       *)
(***************************************************************************)
\* After an attempt on the page: the while condition, then the for loop.
PrimaryAfterAttempt(rc, text, ft) ==
    IF PrimaryLoopAgain(rc, text)
    THEN /\ ppc' = "getPage"
         /\ UNCHANGED <<promise, promiseValue, pdf>>
    ELSE IF pageNum < numPages
    THEN /\ ppc' = "delay"
         /\ UNCHANGED <<promise, promiseValue, pdf>>
    ELSE FinishPdfPass(ft)

\* pageText = extractedText and the if / else-if that follows it.
PrimaryEndAttempt(text) ==
    LET ft == IF EmitsPage(text)
              THEN fullText \o Block(PageHeader(pageNum), text) ELSE fullText
    IN  /\ attemptText' = <<>>
        /\ fullText' = ft
        /\ failedPages' = IF ~EmitsPage(text) /\ retryCount = maxRetries
                          THEN Push(failedPages, pageNum) ELSE failedPages
        /\ PrimaryAfterAttempt(retryCount, text, ft)

\* const page = await pdf.getPage(pageNum), and the catch (pageError) block.
PrimaryGetPage ==
    /\ passName = "primary"
    /\ ppc = "getPage"
    /\ \/ /\ MayReturn("primary", {"getPage"}, pageNum)
          /\ ppc' = "getText"
          /\ UNCHANGED <<retryCount, failedPages, promise, promiseValue, pdf>>
       \/ /\ MayThrow("primary", "getPage", pageNum)
          /\ retryCount' = retryCount + 1
          /\ failedPages' = IF retryCount + 1 > maxRetries
                            THEN Push(failedPages, pageNum) ELSE failedPages
          /\ PrimaryAfterAttempt(retryCount + 1, <<>>, fullText)
    /\ UNCHANGED <<callVars, mainVars, passName, quickCount, pageNum, attemptText,
                   fullText, ocrVars, reads>>

\* Approach 1 has given text (empty when it threw).
PrimaryApproach1Done(text) ==
    IF NeedsApproach2(text)
    THEN /\ attemptText' = text
         /\ ppc' = "getTextAlt"
         /\ UNCHANGED <<fullText, failedPages, promise, promiseValue, pdf>>
    ELSE PrimaryEndAttempt(text)

\* Approach 1: page.getTextContent({ includeMarkedContent: true })
PrimaryGetTextContent ==
    /\ passName = "primary"
    /\ ppc = "getText"
    /\ \/ /\ MayReturn("primary", {"getTextMarked", "getText"}, pageNum)
          /\ PrimaryApproach1Done(ProcessedTexts[Page(file.pages[pageNum]).marked])
       \/ /\ \/ MayThrow("primary", "getTextMarked", pageNum)
             \/ MayThrow("primary", "getText", pageNum)   \* under either setting
          /\ PrimaryApproach1Done(<<>>)
    /\ UNCHANGED <<callVars, mainVars, passName, quickCount, pageNum, retryCount,
                   ocrVars, reads>>

\* Approach 2: page.getTextContent({ includeMarkedContent: false })
PrimaryGetTextContentAlt ==
    /\ passName = "primary"
    /\ ppc = "getTextAlt"
    /\ \/ /\ MayReturn("primary", {"getTextPlain", "getText"}, pageNum)
          /\ LET alt == ProcessedTexts[Page(file.pages[pageNum]).plain]
             IN  PrimaryEndAttempt(IF Replaces(alt, attemptText) THEN alt ELSE attemptText)
       \/ /\ \/ MayThrow("primary", "getTextPlain", pageNum)
             \/ MayThrow("primary", "getText", pageNum)
          /\ PrimaryEndAttempt(attemptText)
    /\ UNCHANGED <<callVars, mainVars, passName, quickCount, pageNum, retryCount,
                   ocrVars, reads>>

\* await new Promise(resolve => setTimeout(resolve, 10)), then the next page.
PrimaryDelay ==
    /\ passName = "primary"
    /\ ppc = "delay"
    /\ pageNum' = pageNum + 1
    /\ retryCount' = 0
    /\ ppc' = "getPage"
    /\ UNCHANGED <<callVars, mainVars, passName, promise, promiseValue, quickCount,
                   attemptText, fullText, failedPages, ocrVars, pdf, reads>>

(***************************************************************************)
(* extractFromPDFAlternative and extractFromPDFWithOCR.                    *)
(***************************************************************************)
\* The end of one iteration of the for loop of the alternative and OCR passes.
NextPage(ft) ==
    IF pageNum < numPages
    THEN /\ pageNum' = pageNum + 1
         /\ ppc' = "getPage"
         /\ UNCHANGED <<promise, promiseValue, pdf>>
    ELSE /\ FinishPdfPass(ft)
         /\ UNCHANGED pageNum

\* const page = await pdf.getPage(pageNum)
AltGetPage ==
    /\ passName = "alt"
    /\ ppc = "getPage"
    /\ \/ /\ MayReturn("alt", {"getPage"}, pageNum)
          /\ ppc' = "getText"
          /\ UNCHANGED <<promise, promiseValue, pdf, pageNum>>
       \/ /\ MayThrow("alt", "getPage", pageNum)
          /\ NextPage(fullText)
    /\ UNCHANGED <<callVars, mainVars, passName, quickCount, primaryVars, fullText,
                   ocrVars, reads>>

\* const textContent = await page.getTextContent(...), and the rest of the body.
AltGetTextContent ==
    /\ passName = "alt"
    /\ ppc = "getText"
    /\ \/ /\ MayReturn("alt", {"getText"}, pageNum)
          /\ LET text == AlternativeTexts[Page(file.pages[pageNum]).marked]
                 ft == IF EmitsPage(text)
                       THEN fullText \o Block(PageHeader(pageNum), text) ELSE fullText
             IN  /\ fullText' = ft
                 /\ NextPage(ft)
       \/ /\ MayThrow("alt", "getText", pageNum)
          /\ UNCHANGED fullText
          /\ NextPage(fullText)
    /\ UNCHANGED <<callVars, mainVars, passName, quickCount, primaryVars, ocrVars, reads>>

\* pdf.getPage(pageNum), document.createElement('canvas'), canvas.getContext('2d')
OcrGetPage ==
    /\ passName = "ocr"
    /\ ppc = "getPage"
    /\ \/ /\ MayReturn("ocr", {"getPage", "getContext"}, pageNum)
          /\ ppc' = "render"
          /\ UNCHANGED <<promise, promiseValue, pdf, pageNum>>
       \/ /\ MayThrow("ocr", "getContext", pageNum)        \* if (!context) continue
          /\ NextPage(fullText)
       \/ /\ MayThrow("ocr", "getPage", pageNum)
          /\ NextPage(fullText)
    /\ UNCHANGED <<callVars, mainVars, passName, quickCount, primaryVars, fullText,
                   ocrVars, reads>>

\* await page.render(renderContext).promise; canvas.toDataURL(...)
OcrRender ==
    /\ passName = "ocr"
    /\ ppc = "render"
    /\ \/ /\ MayReturn("ocr", {"render"}, pageNum)
          /\ ppc' = "recognize"
          /\ ocrPass' = 1
          /\ UNCHANGED <<promise, promiseValue, pdf, pageNum>>
       \/ /\ MayThrow("ocr", "render", pageNum)
          /\ UNCHANGED ocrPass
          /\ NextPage(fullText)
    /\ UNCHANGED <<callVars, mainVars, passName, quickCount, primaryVars, fullText,
                   bestText, bestScore, reads>>

\* A page left as soon as one recognition pass has given text.
OcrAfterPassEarly(bt, bs) ==
    IF ocrPass < OCR_PASSES /\ bs = 0
    THEN /\ ocrPass' = ocrPass + 1
         /\ bestText' = bt
         /\ bestScore' = bs
         /\ UNCHANGED <<fullText, pageNum, ppc, promise, promiseValue, pdf>>
    ELSE LET finalText == CleanedOcrTexts[bt]
             ft == IF EmitsPage(finalText)
                   THEN fullText \o Block(OcrPageHeader(pageNum), finalText) ELSE fullText
         IN  /\ ocrPass' = 0
             /\ bestText' = <<>>
             /\ bestScore' = 0
             /\ fullText' = ft
             /\ NextPage(ft)

\* After recognition pass ocrPass: the next pass, or the page's final text.
OcrAfterPass(bt, bs) ==
    IF ocrPass < OCR_PASSES
    THEN /\ ocrPass' = ocrPass + 1
         /\ bestText' = bt
         /\ bestScore' = bs
         /\ UNCHANGED <<fullText, pageNum, ppc, promise, promiseValue, pdf>>
    ELSE LET finalText == CleanedOcrTexts[bt]
             ft == IF EmitsPage(finalText)
                   THEN fullText \o Block(OcrPageHeader(pageNum), finalText) ELSE fullText
         IN  /\ ocrPass' = 0
             /\ bestText' = <<>>
             /\ bestScore' = 0
             /\ fullText' = ft
             /\ NextPage(ft)

\* Pass 1 .. Pass 4: await Tesseract.recognize(dataUrl, 'eng', ...)
OcrRecognize ==
    /\ passName = "ocr"
    /\ ppc = "recognize"
    /\ \/ /\ MayReturn("ocr", {"recognize"}, 10 * pageNum + ocrPass)
          /\ LET text == Page(file.pages[pageNum]).ocr[ocrPass]
             IN  IF BetterOcr(text, bestScore)
                 THEN OcrAfterPass(text, Len(Trim(text)))
                 ELSE OcrAfterPass(bestText, bestScore)
       \/ /\ MayThrow("ocr", "recognize", 10 * pageNum + ocrPass)
          /\ OcrAfterPass(bestText, bestScore)
    /\ UNCHANGED <<callVars, mainVars, passName, quickCount, primaryVars, reads>>

(***************************************************************************)
(* extractFromWord, extractFromExcel, extractFromImage.                    *)
(***************************************************************************)
\* const result = await mammoth.extractRawText({ arrayBuffer })
WordExtract ==
    /\ passName = "word"
    /\ ppc = "parse"
    /\ \/ /\ MayReturn("word", {"extractRawText"}, 0)
          /\ Resolve(WordResult(file.word))
       \/ /\ MayThrow("word", "extractRawText", 0)
          /\ Resolve(<<>>)
    /\ UNCHANGED <<callVars, mainVars, passName, quickCount, pageNum, primaryVars,
                   fullText, ocrVars, pdf, reads>>

\* A loop over the sheets that the first error of a sheet ends.
RECURSIVE SheetsTextUntilError(_, _, _)
SheetsTextUntilError(sheets, i, failing) ==
    IF i > Len(sheets) \/ i \in failing THEN <<>>
    ELSE (IF sheets[i].present /\ Len(Trim(sheets[i].text)) > 0
          THEN Block(SheetHeader(sheets[i].name), sheets[i].text)
          ELSE <<>>)
         \o SheetsTextUntilError(sheets, i + 1, failing)

\* workbook.SheetNames.forEach(...): the blocks of the sheets from the i-th on;
\* failing holds the sheets whose sheet_to_txt throws.
RECURSIVE SheetsText(_, _, _)
SheetsText(sheets, i, failing) ==
    IF i > Len(sheets) THEN <<>>
    ELSE (IF sheets[i].present /\ i \notin failing /\ Len(Trim(sheets[i].text)) > 0
          THEN Block(SheetHeader(sheets[i].name), sheets[i].text)
          ELSE <<>>)
         \o SheetsText(sheets, i + 1, failing)

\* XLSX.read(arrayBuffer, ...) and the loop over the sheets.
ExcelParse ==
    /\ passName = "excel"
    /\ ppc = "parse"
    /\ \/ /\ MayReturn("excel", {"read"}, 0)
          /\ \E failing \in SheetFailSets :
                Resolve(PassResult(SheetsText(file.sheets, 1, failing)))
       \/ /\ MayThrow("excel", "read", 0)
          /\ Resolve(<<>>)
    /\ UNCHANGED <<callVars, mainVars, passName, quickCount, pageNum, primaryVars,
                   fullText, ocrVars, pdf, reads>>

\* const { data: { text } } = await Tesseract.recognize(dataUrl, 'eng', ...)
ImageRecognize ==
    /\ passName = "image"
    /\ ppc = "recognize"
    /\ \/ /\ MayReturn("image", {"recognize"}, 0)
          /\ Resolve(PassResult(file.image))
       \/ /\ MayThrow("image", "recognize", 0)
          /\ Resolve(<<>>)
    /\ UNCHANGED <<callVars, mainVars, passName, quickCount, pageNum, primaryVars,
                   fullText, ocrVars, pdf, reads>>

(***************************************************************************)
(* Specifications.                                                         *)
(***************************************************************************)
Next ==
    \/ ExtractText
    \/ AwaitQuickCheck
    \/ AwaitFirstPass
    \/ AwaitAlternative
    \/ AwaitOcrFallback
    \/ AwaitSimple
    \/ ReadFile
    \/ LoadDocument
    \/ QuickGetPage
    \/ QuickGetTextContent
    \/ PrimaryGetPage
    \/ PrimaryGetTextContent
    \/ PrimaryGetTextContentAlt
    \/ PrimaryDelay
    \/ AltGetPage
    \/ AltGetTextContent
    \/ OcrGetPage
    \/ OcrRender
    \/ OcrRecognize
    \/ WordExtract
    \/ ExcelParse
    \/ ImageRecognize

\* One call of extractText on any modelled file, every library call free to throw.
Spec == Init /\ [][Next]_vars

\* extractText is called again on the same file once the call before has returned.
Restart ==
    /\ pc = "done"
    /\ call < MaxCalls
    /\ call' = call + 1
    /\ results' = Append(results, [outcome |-> outcome, value |-> result])
    /\ pc' = "start"
    /\ branch' = "none"
    /\ outcome' = "pending"
    /\ result' = <<>>
    /\ invoked' = <<>>
    /\ reads' = 0
    /\ caught' = FALSE
    /\ UNCHANGED <<file, plan, extractedText, passName, ppc, promise, promiseValue,
                   quickCount, pageNum, primaryVars, fullText, ocrVars, pdf, other, pair,
                   input, output, appVars>>

\* Files of the repeated-call specification.
DetPageKinds == {"scanned", "short", "medium"}
DetFiles ==
    {f \in PdfFiles : \A i \in 1..Len(f.pages) : f.pages[i] \in DetPageKinds}
    \cup {f \in WordFiles : f.word = <<"H", "i", "\n", "\n">>}
    \cup ExcelFiles
    \cup ImageFiles

\* Fixed plans: no library call throws, or exactly one request always does.
DetPlans ==
    {FixedPlan("none", "none", 0)}
    \cup {FixedPlan(p, op, 0) :
            p \in PdfPasses \cup {"word", "excel", "image"},
            op \in {"readError", "readThrow", "load", "extractRawText", "read", "recognize"}}
    \cup {FixedPlan(p, op, n) :
            p \in PdfPasses \cup {"excel"},
            op \in {"getPage", "getText", "getTextMarked", "getTextPlain", "getContext",
                    "render", "sheet"},
            n \in 1..MaxPages}
    \cup {FixedPlan("ocr", "recognize", 10 * n + k) : n \in 1..MaxPages, k \in 1..OCR_PASSES}

InitDet == \E f \in DetFiles : \E p \in DetPlans : InitWith(f, p)

NextDet == Next \/ Restart

\* Repeated calls on one file, the libraries answering the same request the same way.
SpecDet == InitDet /\ [][NextDet]_vars

(***************************************************************************)
(* Two calls of extractText in flight at once.  Everything a call keeps is *)
(* a local of extractText or of the closure of one extractor; the event    *)
(* loop runs one continuation at a time and may run a continuation of the  *)
(* other call whenever the running call is suspended.  Each call is first  *)
(* run alone, then the two are run together.                               *)
(***************************************************************************)
\* The locals of the call whose continuation is running.
Locals ==
    [file |-> file, pc |-> pc, branch |-> branch, extractedText |-> extractedText,
     outcome |-> outcome, result |-> result, passName |-> passName, ppc |-> ppc,
     promise |-> promise, promiseValue |-> promiseValue, quickCount |-> quickCount,
     pageNum |-> pageNum, retryCount |-> retryCount, attemptText |-> attemptText,
     fullText |-> fullText, failedPages |-> failedPages, bestText |-> bestText,
     bestScore |-> bestScore, ocrPass |-> ocrPass, pdf |-> pdf, invoked |-> invoked,
     reads |-> reads, caught |-> caught]

\* The locals of a call of extractText(f) that has not run yet.
NewCall(f) ==
    [file |-> f, pc |-> "start", branch |-> "none", extractedText |-> <<>>,
     outcome |-> "pending", result |-> <<>>, passName |-> "none", ppc |-> "idle",
     promise |-> "none", promiseValue |-> <<>>, quickCount |-> 0,
     pageNum |-> 0, retryCount |-> 0, attemptText |-> <<>>,
     fullText |-> <<>>, failedPages |-> <<>>, bestText |-> <<>>,
     bestScore |-> 0, ocrPass |-> 0, pdf |-> "none", invoked |-> <<>>,
     reads |-> 0, caught |-> FALSE]

\* A fullText that is one variable of the module, shared by all the calls.
SharedFullText(c) == fullText

\* let fullText = '': a variable of the closure of one extractor of one call.
CallFullText(c) == c.fullText

\* The continuation that runs next belongs to the call with the locals c.
Resume(c) ==
    /\ file' = c.file
    /\ pc' = c.pc
    /\ branch' = c.branch
    /\ extractedText' = c.extractedText
    /\ outcome' = c.outcome
    /\ result' = c.result
    /\ passName' = c.passName
    /\ ppc' = c.ppc
    /\ promise' = c.promise
    /\ promiseValue' = c.promiseValue
    /\ quickCount' = c.quickCount
    /\ pageNum' = c.pageNum
    /\ retryCount' = c.retryCount
    /\ attemptText' = c.attemptText
    /\ fullText' = CallFullText(c)
    /\ failedPages' = c.failedPages
    /\ bestText' = c.bestText
    /\ bestScore' = c.bestScore
    /\ ocrPass' = c.ocrPass
    /\ pdf' = c.pdf
    /\ invoked' = c.invoked
    /\ reads' = c.reads
    /\ caught' = c.caught

\* The number of the round in which the calls run together: after one round alone
\* for each file.
Together == Len(pair) + 1

\* The call on the first file has returned: the second file is extracted alone.
SecondAlone ==
    /\ pair # <<>>
    /\ call = 1
    /\ pc = "done"
    /\ call' = 2
    /\ results' = Append(results, [outcome |-> outcome, value |-> result])
    /\ Resume(NewCall(pair[2]))
    /\ UNCHANGED <<plan, other, pair, input, output, appVars>>

\* Both have been extracted alone: extractText is called on both, neither awaited.
BothTogether ==
    /\ pair # <<>>
    /\ call = Len(pair)
    /\ pc = "done"
    /\ call' = Together
    /\ results' = Append(results, [outcome |-> outcome, value |-> result])
    /\ Resume(NewCall(pair[1]))
    /\ other' = NewCall(pair[2])
    /\ UNCHANGED <<plan, pair, input, output, appVars>>

\* The running call is suspended and a continuation of the other call runs.
Switch ==
    /\ pair # <<>>
    /\ call = Together
    /\ other.pc # "done"
    /\ other' = Locals
    /\ Resume(other)
    /\ UNCHANGED <<plan, call, results, pair, input, output, appVars>>

ConcPdf(size, pages) == File("application/pdf", <<"a">> \o DotPdf, size, pages, <<>>, <<>>, <<>>)
ConcFiles ==
    { ConcPdf(LARGE_PDF_BYTES, <<"medium", "short">>),
      ConcPdf(LARGE_PDF_BYTES, <<"medium", "medium", "medium">>),
      ConcPdf(LARGE_PDF_BYTES + 1, <<"scanned">>),
      ConcPdf(LARGE_PDF_BYTES + 1, <<"short">>) }
    \cup {f \in WordFiles : f.word = <<"H", "i", "\n", "\n">>}
    \cup {f \in ExcelFiles : f.sheets = <<SheetAlpha, SheetBeta>>}
    \cup {f \in ImageFiles : f.image = <<"a", "b">>}

ConcPlans ==
    { FixedPlan("none", "none", 0), FixedPlan("primary", "getTextMarked", 1),
      FixedPlan("ocr", "recognize", 12) }

InitConc ==
    \E f \in ConcFiles : \E g \in ConcFiles \ {f} : \E p \in ConcPlans :
        InitOf(f, p, <<f, g>>)

NextConc == Next \/ SecondAlone \/ BothTogether \/ Switch

SpecConc == InitConc /\ [][NextConc]_vars

(***************************************************************************)
(* The functions of the service that only compute, applied on their own to *)
(* every text of a bounded set.                                            *)
(***************************************************************************)
TextAlphabet == {"a", "B", "0", "1", "|", " ", ".", "\n"}
Texts == SeqUpTo(TextAlphabet, MaxText)

NoFile == File("", <<>>, 0, <<>>, <<>>, <<>>, <<>>)
Pending == [done |-> FALSE, value |-> <<>>]
Returned(value) == [done |-> TRUE, value |-> value]

\* The local variables of the extractors keep their initial values.
PureFrame ==
    UNCHANGED <<file, plan, call, results, other, pair, input, mainVars, passName, ppc,
                promise, promiseValue, quickCount, pageNum, primaryVars, fullText,
                ocrVars, pdf, reads, appVars>>

\* this.cleanOCRText(bestText)
ApplyCleanOCRText ==
    /\ input # <<>>
    /\ input.fn = "cleanOCRText"
    /\ ~output.done
    /\ output' = Returned(cleanOCRText(input.arg))
    /\ PureFrame

\* Runs of a page: with trailing, leading or no blank, and a blank one, on
\* two lines; and a marker of marked content, which has no str.
RunItems ==
    {TextItem(<<"a", " ">>, 0, 100), TextItem(<<" ", "b">>, 0, 10), TextItem(<<"c">>, 0, 10),
     TextItem(<<" ">>, 0, 50), MarkItem}
ItemLists == SeqUpTo(RunItems, MaxItems)

\* this.processTextContent(textContent, pageNum)
ApplyProcessTextContent ==
    /\ input # <<>>
    /\ input.fn = "processTextContent"
    /\ ~output.done
    /\ output' = Returned(processTextContent(input.arg))
    /\ PureFrame

\* this.cleanExtractedText(pageText)
ApplyCleanExtractedText ==
    /\ input # <<>>
    /\ input.fn = "cleanExtractedText"
    /\ ~output.done
    /\ output' = Returned(cleanExtractedText(input.arg))
    /\ PureFrame

InitPure ==
    /\ InitLocals(NoFile, FixedPlan("none", "none", 0), <<>>)
    /\ \/ \E t \in Texts : input = [fn |-> "cleanOCRText", arg |-> t]
       \/ \E t \in Texts : input = [fn |-> "cleanExtractedText", arg |-> t]
       \/ \E items \in ItemLists : input = [fn |-> "processTextContent", arg |-> items]
    /\ output = Pending
    /\ upload = "idle"
    /\ database = <<>>
    /\ storage = {}
    /\ deletion = NoDeletion

NextPure == ApplyCleanOCRText \/ ApplyCleanExtractedText \/ ApplyProcessTextContent

SpecPure == InitPure /\ [][NextPure]_vars

\* One call in which page.getTextContent of one page of the primary pass throws
\* every time it is called, the event loop running every continuation.
FailingPagePlans == {FixedPlan("primary", "getText", k) : k \in 1..MaxPages}

InitFailingPage == \E f \in Files : \E p \in FailingPagePlans : InitWith(f, p)

SpecFailingPage == InitFailingPage /\ [][Next]_vars /\ WF_vars(Next)

(***************************************************************************)
(* DocumentService.deleteDocument: the file of a document is looked up in  *)
(* storage and deleted, then the record of the document is removed from    *)
(* the database.  A storage path is `documents/` and an object name.       *)
(***************************************************************************)
\* replace(/[^a-zA-Z0-9.-]/g, '_')
Sanitize(name) ==
    [i \in 1..Len(name) |->
        IF name[i] \in Lower \cup Upper \cup Digit \cup {".", "-"} THEN name[i] ELSE "_"]

Documents == <<"documents/">>

\* `documents/${timestamp}_${file.name.replace(...)}`, the path uploadDocument
\* stores a file under.
UploadPath(timestamp, name) == Documents \o NumStr(timestamp) \o <<"_">> \o Sanitize(name)

\* getStoragePath; a record written before the storagePath field existed has
\* an empty one.
getStoragePath(document) ==
    IF document.storagePath # <<>> THEN document.storagePath
    ELSE UploadPath(document.uploadedAt, document.fileName)

\* alternativePaths of deleteDocument.
alternativePaths(document) ==
    << Documents \o document.fileName,
       Documents \o Sanitize(document.fileName),
       Documents \o document.id \o <<"_">> \o document.fileName >>

\* remove(dbRef(database, `documents/${id}`))
Remove(db, id) == SelectSeq(db, LAMBDA d : d.id # id)

DeleteFrame ==
    UNCHANGED <<file, plan, call, results, other, pair, input, output, mainVars, passName,
                ppc, promise, promiseValue, quickCount, pageNum, primaryVars, fullText,
                ocrVars, pdf, reads, upload>>

\* deleteDocument is called with a document of the list: up to its first
\* await, the verification of the storage path.
DeleteDocument ==
    /\ deletion.pc = "idle"
    /\ \E i \in 1..Len(database) :
          deletion' = [pc |-> "verify", document |-> database[i],
                       path |-> getStoragePath(database[i]), alt |-> 0, threw |-> "none"]
    /\ UNCHANGED <<database, storage>>
    /\ DeleteFrame

\* verifyStoragePath: true when getDownloadURL resolves, which it can only
\* for an object that exists; false whenever it throws.
verifyStoragePath(path, ok) == ok /\ path \in storage
\* deleteObject resolves only for an object that exists.
ObjectDeleted(path, ok) == ok /\ path \in storage

\* const pathExists = await this.verifyStoragePath(storagePath) and the if.
DeleteVerify ==
    /\ deletion.pc = "verify"
    /\ \E ok \in BOOLEAN :
          deletion' = IF verifyStoragePath(deletion.path, ok)
                      THEN [deletion EXCEPT !.pc = "deleteObject"]
                      ELSE [deletion EXCEPT !.pc = "verifyAlt", !.alt = 1]
    /\ UNCHANGED <<database, storage>>
    /\ DeleteFrame

\* for (const altPath of alternativePaths): the verification of one path.
DeleteVerifyAlternative ==
    /\ deletion.pc = "verifyAlt"
    /\ LET altPath == alternativePaths(deletion.document)[deletion.alt]
       IN  \E ok \in BOOLEAN :
              deletion' =
                  IF verifyStoragePath(altPath, ok)
                  THEN [deletion EXCEPT !.pc = "deleteObject", !.path = altPath]
                  ELSE IF deletion.alt < Len(alternativePaths(deletion.document))
                  THEN [deletion EXCEPT !.alt = deletion.alt + 1]
                  ELSE [deletion EXCEPT !.pc = "remove"]
    /\ UNCHANGED <<database, storage>>
    /\ DeleteFrame

\* await deleteObject(storageRef), in the loop (followed by break) or in the
\* else branch; when it throws, the catch block rethrows.
DeleteObject ==
    /\ deletion.pc = "deleteObject"
    /\ \E ok \in BOOLEAN :
          IF ObjectDeleted(deletion.path, ok)
          THEN /\ storage' = storage \ {deletion.path}
               /\ deletion' = [deletion EXCEPT !.pc = "remove"]
          ELSE /\ deletion' = [deletion EXCEPT !.pc = "rejected", !.threw = "deleteObject"]
               /\ UNCHANGED storage
    /\ UNCHANGED database
    /\ DeleteFrame

\* await remove(documentRef); when it throws, the catch block rethrows.
DeleteRemove ==
    /\ deletion.pc = "remove"
    /\ \E ok \in BOOLEAN :
          IF ok
          THEN /\ database' = Remove(database, deletion.document.id)
               /\ deletion' = [deletion EXCEPT !.pc = "resolved"]
          ELSE /\ deletion' = [deletion EXCEPT !.pc = "rejected", !.threw = "remove"]
               /\ UNCHANGED database
    /\ UNCHANGED storage
    /\ DeleteFrame

\* File names with and without a character that uploadDocument replaces.
DeleteNames == {<<"a">>, <<"a", " ", "b">>}
\* Date.now() when an upload starts and when its record is written.
UploadTimes == {1, 2}

\* The record uploadDocument writes for a file stored at time t, with the
\* key that push gave it; or such a record without storagePath.
StoredDocument(id, name, t, at, withPath) ==
    [id |-> id, fileName |-> name, uploadedAt |-> at,
     storagePath |-> IF withPath THEN UploadPath(t, name) ELSE <<>>]

\* One document is in the database.  Its file is where uploadDocument put it,
\* or where an earlier layout (an alternative path) put it, or it is gone.
InitDelete ==
    /\ InitLocals(NoFile, FixedPlan("none", "none", 0), <<>>)
    /\ input = <<>>
    /\ output = <<>>
    /\ upload = "idle"
    /\ deletion = NoDeletion
    /\ \E name \in DeleteNames, t \in UploadTimes, at \in UploadTimes, withPath \in BOOLEAN :
          /\ t <= at
          /\ LET document == StoredDocument(<<"-", "N">>, name, t, at, withPath)
             IN  /\ database = <<document>>
                 /\ \/ storage = {UploadPath(t, name)}
                    \/ \E i \in 1..3 : ~withPath /\ storage = {alternativePaths(document)[i]}
                    \/ storage = {}

NextDelete ==
    \/ DeleteDocument
    \/ DeleteVerify
    \/ DeleteVerifyAlternative
    \/ DeleteObject
    \/ DeleteRemove

SpecDelete == InitDelete /\ [][NextDelete]_vars

(***************************************************************************)
(* DocumentService.uploadDocument: the file goes to storage, then a        *)
(* document record is pushed to the database.  The upload form calls it    *)
(* with the fields of the form; the card of a document shows a badge.      *)
(***************************************************************************)
\* UploadForm: formData, the metadata argument of uploadDocument.
FormData ==
    [title |-> "title", description |-> "description", date |-> "date",
     documentType |-> "Syllabus", referenceNumber |-> "ref"]

\* documentData: the metadata spread, then the six fields the service sets.
DocumentData(metadata, f) ==
    [fileUrl |-> "downloadURL", fileName |-> f.name, fileSize |-> f.size,
     uploadedAt |-> "now", uploadedBy |-> "displayName", storagePath |-> "fullPath"]
      @@ metadata

\* DocumentCard: document.content ? "Searchable" : "Metadata only"
Badge(document) ==
    IF "content" \in DOMAIN document /\ document.content # <<>>
    THEN "Searchable" ELSE "Metadata only"

UploadFrame ==
    UNCHANGED <<file, plan, call, results, other, pair, input, output, mainVars, passName,
                ppc, promise, promiseValue, quickCount, pageNum, primaryVars, fullText,
                ocrVars, pdf, reads, storage, deletion>>

\* uploadDocument is called: uploadBytesResumable starts the transfer.
UploadDocument ==
    /\ upload = "idle"
    /\ upload' = "running"
    /\ UNCHANGED database
    /\ UploadFrame

\* The error callback of the upload task: the promise rejects.
UploadError ==
    /\ upload = "running"
    /\ upload' = "rejected"
    /\ UNCHANGED database
    /\ UploadFrame

\* The completion callback up to its first await: getDownloadURL.
UploadGetDownloadURL ==
    /\ upload = "running"
    /\ \E ok \in BOOLEAN : upload' = IF ok THEN "saving" ELSE "rejected"
    /\ UNCHANGED database
    /\ UploadFrame

\* The rest of the completion callback: push(documentData), then resolve.
UploadPush ==
    /\ upload = "saving"
    /\ \E ok \in BOOLEAN :
          IF ok
          THEN /\ database' = Append(database, DocumentData(FormData, file))
               /\ upload' = "resolved"
          ELSE /\ upload' = "rejected"
               /\ UNCHANGED database
    /\ UploadFrame

UploadFiles == ConcFiles

InitUpload == \E f \in UploadFiles : InitWith(f, FixedPlan("none", "none", 0))

NextUpload == Next \/ UploadDocument \/ UploadError \/ UploadGetDownloadURL \/ UploadPush

SpecUpload == InitUpload /\ [][NextUpload]_vars

\* The event loop runs every continuation that is ready.
FairSpec == Spec /\ WF_vars(Next)

(***************************************************************************)
(* Reading a pass output: its lines and its page headers.                  *)
(***************************************************************************)
NewlinesOf(s) == {i \in 1..Len(s) : s[i] = "\n"}

\* The lines of s, split at "\n".
Lines(s) ==
    LET nl == NewlinesOf(s)
        n == Cardinality(nl)
        cut == [k \in 0..(n + 1) |->
                  IF k = 0 THEN 0
                  ELSE IF k = n + 1 THEN Len(s) + 1
                  ELSE CHOOSE i \in nl : Cardinality({j \in nl : j < i}) = k - 1]
    IN  [k \in 1..(n + 1) |-> SubSeq(s, cut[k - 1] + 1, cut[k] - 1)]

HeaderStart == Dashes \o <<" ">> \o PageWord
IsHeaderLine(line) ==
    Len(line) >= Len(HeaderStart) /\ SubSeq(line, 1, Len(HeaderStart)) = HeaderStart

\* The page number a header line carries, -1 for a malformed header.
HeaderNumber(line) ==
    IF \E n \in 0..(MaxPages + 2) : line \in {PageHeader(n), OcrPageHeader(n)}
    THEN CHOOSE n \in 0..(MaxPages + 2) : line \in {PageHeader(n), OcrPageHeader(n)}
    ELSE -1

\* The page numbers of the headers of a text, in the order they appear.
HeaderNumbers(text) ==
    LET ls == Lines(text)
        hs == SelectSeq(ls, IsHeaderLine)
    IN  [k \in 1..Len(hs) |-> HeaderNumber(hs[k])]

\* The non-empty texts the text layer, and the recognition passes, can give for a page.
TextLayerTexts(n) ==
    LET p == Page(file.pages[n])
    IN  {ProcessedTexts[p.marked], ProcessedTexts[p.plain],
         AlternativeTexts[p.marked]} \ {<<>>}
OcrTexts(n) ==
    {CleanedOcrTexts[Page(file.pages[n]).ocr[i]] : i \in 1..OCR_PASSES} \ {<<>>}

\* Headers ascend strictly over 1..numPages, each is followed by a non-empty text
\* of its page, and every other line is blank.
WellFormedPages(text) ==
    LET ls == Lines(text)
        H == {k \in 1..Len(ls) : IsHeaderLine(ls[k])}
    IN  /\ \A k \in H : HeaderNumber(ls[k]) \in 1..numPages
        /\ \A j \in H : \A k \in H : j < k => HeaderNumber(ls[j]) < HeaderNumber(ls[k])
        /\ \A k \in H :
              /\ k < Len(ls)
              /\ Trim(ls[k + 1]) # <<>>
              /\ HeaderNumber(ls[k]) \in 1..numPages =>
                    IF ls[k] = PageHeader(HeaderNumber(ls[k]))
                    THEN ls[k + 1] \in TextLayerTexts(HeaderNumber(ls[k]))
                    ELSE ls[k + 1] \in OcrTexts(HeaderNumber(ls[k]))
        /\ \A k \in 1..Len(ls) : Trim(ls[k]) # <<>> => k \in H \/ (k > 1 /\ (k - 1) \in H)

Invoked(name) == \E i \in 1..Len(invoked) : invoked[i] = name

(***************************************************************************)
(* C1.  Whatever the libraries do, the promise of extractText never        *)
(* rejects: every outcome of a call is a fulfilled promise whose value is  *)
(* a string, possibly the empty one.                                       *)
(***************************************************************************)
C1_NeverRejects ==
    /\ outcome # "rejected"
    /\ pc = "done" => outcome = "fulfilled" /\ result \in Seq(STRING)

\* A call has returned after its catch block absorbed a rejected extractor promise.
C1_Witness == pc = "done" /\ caught /\ outcome = "fulfilled" /\ result = <<>>

(***************************************************************************)
(* C2.  Every call of extractText on a PDF eventually resolves, every      *)
(* library call returning or throwing, also when a page gives empty text   *)
(* without any error.                                                      *)
(***************************************************************************)
C2_Terminates == (branch = "pdf") ~> (pc = "done")

(***************************************************************************)
(* C3.  In the running and the resolved output of every PDF pass the page  *)
(* headers ascend strictly over the 1-based page numbers of the document,  *)
(* each page at most once; a header comes only with a non-empty text of    *)
(* its page, and nothing stands in for a page that gave none or failed.    *)
(***************************************************************************)
C3_PageHeaders ==
    /\ WellFormedPages(fullText)
    /\ passName \in {"primary", "alt", "ocr"} /\ promise = "resolved" =>
          WellFormedPages(promiseValue)

\* A pass over two pages has resolved with page 2 alone: page 1 was left out.
C3_Witness ==
    /\ passName \in {"primary", "alt", "ocr"}
    /\ promise = "resolved"
    /\ numPages = 2
    /\ HeaderNumbers(promiseValue) = <<2>>

(***************************************************************************)
(* C4.  isTextExtractable is false exactly when extractText takes the      *)
(* unsupported branch, and in that branch extractText returns '' without   *)
(* reading the file or invoking any extractor.                             *)
(***************************************************************************)
C4_SameClassification ==
    branch # "none" =>
        /\ (branch = "unsupported") <=> ~isTextExtractable(file)
        /\ branch = "unsupported" =>
              /\ pc = "done"
              /\ outcome = "fulfilled"
              /\ result = <<>>
              /\ invoked = <<>>
              /\ reads = 0

\* A call on a file that isTextExtractable rejects has returned.
C4_Witness == pc = "done" /\ branch = "unsupported" /\ ~isTextExtractable(file)

(***************************************************************************)
(* C5.  The declared media type takes precedence over the suffix: a file   *)
(* whose media type is on a category's allow-list is routed to that        *)
(* category whatever its suffix, the suffix deciding only when the media   *)
(* type matches no category.                                               *)
(***************************************************************************)
TypeCategory(f) ==
    IF f.type = "application/pdf" THEN "pdf"
    ELSE IF f.type \in {"application/vnd.openxmlformats-officedocument.wordprocessingml.document",
                        "application/msword"} THEN "word"
    ELSE IF f.type \in {"application/vnd.openxmlformats-officedocument.spreadsheetml.sheet",
                        "application/vnd.ms-excel"} THEN "excel"
    ELSE IF f.type \in {"image/png", "image/jpeg", "image/jpg"} THEN "image"
    ELSE "none"

C5_TypeBeforeSuffix ==
    branch # "none" /\ TypeCategory(file) # "none" => branch = TypeCategory(file)

\* A file with an image media type and a PDF suffix has been routed.
C5_Witness == branch # "none" /\ TypeCategory(file) = "image" /\ IsPdfFile(file)

(***************************************************************************)
(* C6.  For a PDF over 10 MiB whose first page has no text runs,           *)
(* extractText invokes the OCR pass and no pass that requests the text     *)
(* runs of every page, neither the primary nor the alternative one (a call *)
(* that ended in the catch block set aside).                               *)
(***************************************************************************)
LargeScanned(f) ==
    /\ Classify(f) = "pdf"
    /\ IsLargePdf(f)
    /\ Len(f.pages) >= 1
    /\ Page(f.pages[1]).plain = <<>>

C6_NoTextLayerPass ==
    branch = "pdf" /\ LargeScanned(file) =>
        /\ ~Invoked("primary")
        /\ ~Invoked("alt")
        /\ pc = "done" => Invoked("ocr") \/ caught

\* The OCR pass has run first on such a PDF, after the quick check counted no runs.
C6_Witness ==
    /\ LargeScanned(file)
    /\ Len(invoked) >= 2 /\ invoked[1] = "quick" /\ invoked[2] = "ocr"
    /\ pc = "done"

(***************************************************************************)
(* C7.  For a PDF of any size whose text layer yields fewer than 50        *)
(* characters in total, extractText eventually invokes the OCR pass (a     *)
(* call that ended in the catch block set aside).                          *)
(***************************************************************************)
\* The longest text the text layer can give for page n.
LongestPageText(f, n) ==
    LET p == Page(f.pages[n])
    IN  PickLongest(<<ProcessedTexts[p.marked], ProcessedTexts[p.plain],
                      AlternativeTexts[p.marked]>>)

RECURSIVE TextLayerOutput(_, _)
\* The output of a text-layer pass over pages 1..n in which every page gives that text.
TextLayerOutput(f, n) ==
    IF n = 0 THEN <<>>
    ELSE LET text == LongestPageText(f, n)
         IN  TextLayerOutput(f, n - 1)
               \o (IF EmitsPage(text) THEN Block(PageHeader(n), text) ELSE <<>>)

LowYield(f) ==
    Classify(f) = "pdf" /\ Len(PassResult(TextLayerOutput(f, Len(f.pages)))) < OCR_BELOW

C7_OcrFallback == (pc = "start" /\ LowYield(file)) ~> (Invoked("ocr") \/ caught)

(***************************************************************************)
(* C8.  Every string extractText returns for a PDF, a Word document, a     *)
(* spreadsheet or an image has no leading and no trailing whitespace.      *)
(***************************************************************************)
C8_Trimmed ==
    pc = "done" /\ branch \in {"pdf", "word", "excel", "image"} => result = Trim(result)

(***************************************************************************)
(* C9.  A PDF document handle opened by the quick check, the primary, the  *)
(* alternative or the OCR pass has been destroyed by the time the pass     *)
(* resolves, whichever way the pass ends.                                  *)
(***************************************************************************)
C9_HandlesDestroyed == promise \in {"resolved", "rejected"} => pdf # "open"

(***************************************************************************)
(* C10.  Two calls of extractText on the same file, the libraries          *)
(* answering the same requests the same way, return the same string.       *)
(***************************************************************************)
C10_Deterministic ==
    pc = "done" =>
        \A i \in 1..Len(results) : results[i] = [outcome |-> outcome, value |-> result]

\* A second call has returned a non-empty string.
C10_Witness == pc = "done" /\ call > 1 /\ Len(results) >= 1 /\ result # <<>>

(***************************************************************************)
(* C11.  Two calls of extractText on different files whose continuations   *)
(* interleave at any suspension point each return what they return when    *)
(* run alone.                                                              *)
(***************************************************************************)
\* What the call on file f returned when it ran alone.
AloneResult(f) == results[IF f = pair[1] THEN 1 ELSE 2]

C11_NoInterference ==
    pair # <<>> /\ call = Together =>
        /\ pc = "done" => [outcome |-> outcome, value |-> result] = AloneResult(file)
        /\ other.pc = "done" =>
              [outcome |-> other.outcome, value |-> other.result] = AloneResult(other.file)

\* Both calls have returned a non-empty string after each was suspended inside a
\* PDF pass that the other call's file also went through.
C11_Witness ==
    /\ pair # <<>>
    /\ call = Together
    /\ pc = "done" /\ other.pc = "done"
    /\ result # <<>> /\ other.result # <<>>
    /\ result # other.result
    /\ Invoked("primary") /\ \E i \in 1..Len(other.invoked) : other.invoked[i] = "primary"

(***************************************************************************)
(* C12.  The output for a spreadsheet is, in the order of the workbook,    *)
(* one block '--- Sheet: <name> ---' with the sheet's text for every sheet *)
(* whose text is not blank, hidden sheets included; a blank or absent      *)
(* sheet gives no block, and a sheet whose processing throws loses its own *)
(* block only.                                                             *)
(***************************************************************************)
\* The sheets of f that give a block when the sheets in failing throw, in order.
BlockSheets(f, failing) ==
    SelectSeq([i \in 1..Len(f.sheets) |-> i],
              LAMBDA i : /\ f.sheets[i].present
                         /\ \E j \in 1..Len(f.sheets[i].text) : f.sheets[i].text[j] \notin WS
                         /\ i \notin failing)

ExpectedSheetsText(f, failing) ==
    LET kept == BlockSheets(f, failing)
    IN  Trim(Concat([k \in 1..Len(kept) |->
                 <<"\n">> \o SheetHeader(f.sheets[kept[k]].name) \o <<"\n">>
                   \o f.sheets[kept[k]].text \o <<"\n">>]))

\* Under a fixed plan: the sheets that throw, and whether the workbook is read at all.
PlannedSheetFailures(f) == {i \in 1..Len(f.sheets) : plan.key = <<"excel", "sheet", i>>}
PlannedWorkbookFailure ==
    plan.key \in {<<"excel", "readError", 0>>, <<"excel", "readThrow", 0>>, <<"excel", "read", 0>>}

C12_SheetBlocks ==
    ~plan.free /\ ~PlannedWorkbookFailure =>
        /\ passName = "excel" /\ promise = "resolved" =>
              promiseValue = ExpectedSheetsText(file, PlannedSheetFailures(file))
        /\ branch = "excel" /\ pc = "done" =>
              result = ExpectedSheetsText(file, PlannedSheetFailures(file))

\* A workbook of two sheets has been extracted: the first sheet threw, the second,
\* a hidden one, gave its block.
C12_Witness ==
    /\ branch = "excel" /\ pc = "done"
    /\ ~plan.free /\ plan.key = <<"excel", "sheet", 1>>
    /\ Len(file.sheets) = 2 /\ file.sheets[2].hidden
    /\ result = SheetHeader(file.sheets[2].name) \o <<"\n">> \o Trim(file.sheets[2].text)

(***************************************************************************)
(* C13.  The clean-up of recognised text replaces every '|' by 'I', and a  *)
(* '0' by 'O' and a '1' by 'l' exactly where a word character follows (the *)
(* digit begins a word or is inside one); a '0' or '1' standing alone or   *)
(* ending a word or a number is kept.                                      *)
(***************************************************************************)
\* The text cleanOCRText has when it reaches its digit replacements.
BeforeDigitFix(text) ==
    ReplaceChar(
        InsertSpace(
            InsertSpace(InsertSpace(InsertSpace(text, Lower, Upper), Lower, Digit), Digit, Upper),
            SentenceEnd, Upper),
        "|", "I")

\* '0' to 'O' and '1' to 'l' where a word character follows, nowhere else.
WordDigitFix(s) ==
    [i \in 1..Len(s) |->
        IF s[i] \in {"0", "1"} /\ i < Len(s) /\ s[i + 1] \in WordChar
        THEN (IF s[i] = "0" THEN "O" ELSE "l")
        ELSE s[i]]

C13_DigitFix ==
    input # <<>> /\ input.fn = "cleanOCRText" /\ output.done =>
        /\ \A i \in 1..Len(output.value) : output.value[i] # "|"
        /\ output.value
             = Trim(CollapseNewlines(CollapseWhitespace(WordDigitFix(BeforeDigitFix(input.arg)))))

\* A text with a '0' and a '1' each standing alone has been cleaned.
C13_Witness ==
    /\ input # <<>> /\ input.fn = "cleanOCRText" /\ output.done
    /\ input.arg = <<"0", " ", "1">>

(***************************************************************************)
(* C14.  When uploadDocument succeeds for a file from which extractText    *)
(* yields a non-empty string, the content field of the document record is  *)
(* that string, so the card of the document shows Searchable.              *)
(***************************************************************************)
C14_ContentStored ==
    upload = "resolved" /\ pc = "done" /\ outcome = "fulfilled" /\ result # <<>> =>
        LET document == database[Len(database)]
        IN  /\ "content" \in DOMAIN document
            /\ document.content = result
            /\ Badge(document) = "Searchable"

\* The upload of a file has succeeded and extractText has returned a non-empty
\* text for the same file.
C14_Witness ==
    /\ upload = "resolved" /\ Len(database) = 1
    /\ pc = "done" /\ outcome = "fulfilled" /\ result # <<>>

(***************************************************************************)
(* C15.  In the primary pass an attempt on a page that completes without   *)
(* error and gives empty text is not followed by another attempt on that   *)
(* page: the page is recorded as failed once and the pass moves on (so no  *)
(* page is attempted more than twice).                                     *)
(***************************************************************************)
NoFaults == plan = FixedPlan("none", "none", 0)

\* A step that ends an attempt of the primary pass without emitting a block.
EmptyAttemptEnds ==
    /\ passName = "primary"
    /\ ppc \in {"getText", "getTextAlt"}
    /\ ppc' \notin {"getText", "getTextAlt"}
    /\ fullText' = fullText

C15_EmptyPageNotRetried ==
    [][NoFaults /\ EmptyAttemptEnds =>
          /\ ppc' # "getPage"
          /\ failedPages' = Append(failedPages, pageNum)]_vars

\* The primary pass is reading a page without text, and no library call fails.
C15_Witness ==
    /\ NoFaults
    /\ passName = "primary" /\ ppc = "getTextAlt"
    /\ file.pages[pageNum] = "scanned"

(***************************************************************************)
(* C16.  When getTextContent of page k throws on every attempt of the      *)
(* primary pass, the pass ends with page k recorded as failed exactly once *)
(* and left out of the output, and with every other page that has text in  *)
(* the output.                                                             *)
(***************************************************************************)
PageAlwaysFails(k) == plan = FixedPlan("primary", "getText", k)

Occurrences(seq, x) == Cardinality({i \in 1..Len(seq) : seq[i] = x})

PageHasText(n) ==
    LET p == Page(file.pages[n])
    IN  ProcessedTexts[p.marked] # <<>> \/ ProcessedTexts[p.plain] # <<>>

PrimaryEndedWithout(k) ==
    /\ passName = "primary"
    /\ promise = "resolved"
    /\ Occurrences(failedPages, k) = 1
    /\ k \notin Range(HeaderNumbers(promiseValue))
    /\ \A j \in (1..numPages) \ {k} :
          PageHasText(j) => j \in Range(HeaderNumbers(promiseValue))

C16_FailingPageSkipped ==
    \A k \in 1..MaxPages :
        (/\ pc = "start" /\ PageAlwaysFails(k)
         /\ Classify(file) = "pdf" /\ ~IsLargePdf(file) /\ k <= numPages)
            ~> PrimaryEndedWithout(k)

\* Approach 1 has thrown on a page whose getTextContent always throws, in a
\* document with another page that has text.
C16_Witness ==
    /\ passName = "primary" /\ ppc = "getTextAlt"
    /\ PageAlwaysFails(pageNum)
    /\ \E j \in (1..numPages) \ {pageNum} : PageHasText(j)

(***************************************************************************)
(* C17.  For a PDF the alternative pass runs exactly when the result of    *)
(* the first pass has fewer than 100 characters; the result of a later     *)
(* pass replaces the result so far, whole, only when it is strictly        *)
(* longer; what extractText returns is the result so far.  So the returned *)
(* string is the whole output of one pass, a longest one among the passes  *)
(* run, never a merge of pages of several passes.                          *)
(***************************************************************************)
\* The earlier string unless the later one is strictly longer.
Longest2(earlier, later) == IF Len(later) > Len(earlier) THEN later ELSE earlier

\* The step that takes the resolved promise awaited at position p.
Resumes(p) == pc = p /\ pc' # p /\ promise = "resolved"

C17_WholesaleLongest ==
    [][/\ Resumes("await_first") =>
             /\ extractedText' = promiseValue
             /\ (pc' = "await_alt") <=> (Len(promiseValue) < 100)
             /\ pc' \in {"await_alt", "done"}
       /\ Resumes("await_alt") =>
             /\ extractedText' = Longest2(extractedText, promiseValue)
             /\ pc' \in {"await_ocr", "done"}
       /\ Resumes("await_ocr") =>
             /\ extractedText' = Longest2(extractedText, promiseValue)
             /\ pc' = "done"
       /\ branch = "pdf" /\ pc # "done" /\ pc' = "done" /\ ~caught' =>
             result' = extractedText']_vars

\* The alternative pass has given a text exactly as long as the result so far,
\* and a different one.
C17_Witness ==
    /\ pc = "await_alt" /\ promise = "resolved"
    /\ Len(promiseValue) = Len(extractedText) /\ promiseValue # extractedText

(***************************************************************************)
(* C18.  The quick check of the first page is made only for a PDF of more  *)
(* than 10 MiB; a PDF of 10 MiB or less starts with the primary pass; and  *)
(* for a larger PDF a quick check that counted at least one run is         *)
(* followed by the primary pass, not by the OCR pass.                      *)
(***************************************************************************)
TenMiB == 10 * 1024 * 1024

C18_QuickCheckRouting ==
    [][/\ passName # "quick" /\ passName' = "quick" =>
             Classify(file) = "pdf" /\ file.size > TenMiB
       /\ pc = "start" /\ pc' # "start" /\ Classify(file) = "pdf" /\ file.size <= TenMiB =>
             passName' = "primary" /\ pc' = "await_first"
       /\ pc = "await_quick" /\ pc' # "await_quick" /\ promise = "resolved"
            /\ quickCount # 0 =>
             passName' = "primary" /\ pc' = "await_first"]_vars

\* A PDF of more than 10 MiB is in the primary pass after a quick check that
\* counted the runs of its first page.
C18_Witness ==
    /\ pc = "await_first" /\ passName = "primary"
    /\ file.size > TenMiB /\ invoked = <<"quick", "primary">>
    /\ Len(Page(file.pages[1]).plain) > 0

(***************************************************************************)
(* C19.  Where candidates are compared, the winner is a candidate of       *)
(* maximal trimmed length, the earliest computed among equals.  For the    *)
(* candidates of a page of the primary pass: the text of the page is the   *)
(* clean-up of the earliest candidate of maximal trimmed length.           *)
(***************************************************************************)
TrimmedLength(text) == Len(Trim(text))

\* The earliest text of a sequence whose trimmed length is maximal.
EarliestLongestTrimmed(texts) ==
    texts[CHOOSE i \in 1..Len(texts) :
             /\ \A j \in 1..Len(texts) : TrimmedLength(texts[j]) <= TrimmedLength(texts[i])
             /\ \A j \in 1..(i - 1) : TrimmedLength(texts[j]) < TrimmedLength(texts[i])]

C19_MaximalTrimmed ==
    input # <<>> /\ input.fn = "processTextContent" /\ output.done =>
        output.value
          = cleanExtractedText(
                EarliestLongestTrimmed(<<standardText(input.arg), enhancedText(input.arg),
                                         rawText(input.arg)>>))

\* The text of a page has been computed whose runs, in delivery order, end with
\* a blank and, in position order, do not.
C19_Witness ==
    /\ input # <<>> /\ input.fn = "processTextContent" /\ output.done
    /\ input.arg = <<TextItem(<<"c">>, 0, 10), TextItem(<<"a", " ">>, 0, 100)>>

MarkedText == ProcessedTexts[Page(file.pages[pageNum]).marked]
PlainText == ProcessedTexts[Page(file.pages[pageNum]).plain]

\* The step appends the block of the current page for this text, or nothing
\* when the text is blank.
EmitsText(text) ==
    fullText' = fullText \o (IF Len(Trim(text)) > 0
                             THEN Block(PageHeader(pageNum), text) ELSE <<>>)

VisibleRuns(items) == SelectSeq(items, HasVisibleText)

\* A run is delivered before a run more than 5 units higher.
DeliveredOutOfOrder(items) ==
    LET v == VisibleRuns(items)
    IN  \E i \in 1..Len(v) : \E j \in (i + 1)..Len(v) : v[j].y - v[i].y > 5

\* Higher runs first; runs of one line (at most 5 units apart) left to right.
InReadingOrder(runs) ==
    \A i \in 1..Len(runs) : \A j \in (i + 1)..Len(runs) :
        \/ runs[i].y - runs[j].y > 5
        \/ Abs(runs[i].y - runs[j].y) <= 5 /\ runs[i].x <= runs[j].x

\* The arrangements of a sequence.
Arrangements(runs) ==
    {[i \in 1..Len(runs) |-> runs[f[i]]] :
        f \in {g \in [1..Len(runs) -> 1..Len(runs)] :
                  \A a \in 1..Len(runs) : \A b \in 1..Len(runs) : g[a] = g[b] => a = b}}

C21_ReadingOrder ==
    /\ input # <<>> /\ input.fn = "processTextContent" /\ output.done
    /\ DeliveredOutOfOrder(input.arg)
    => \E q \in Arrangements(VisibleRuns(input.arg)) :
          /\ InReadingOrder(q)
          /\ output.value = cleanExtractedText(Join(Strs(q), <<" ">>))

\* The text of a page has been computed whose lower run was delivered first.
C21_Witness ==
    /\ input # <<>> /\ input.fn = "processTextContent" /\ output.done
    /\ input.arg = <<TextItem(<<" ", "b">>, 0, 10), TextItem(<<"a", " ">>, 0, 100)>>

(***************************************************************************)
(* C22.  In the OCR pass every page gets four recognition attempts; an     *)
(* attempt that throws scores zero and the others still run; the text of   *)
(* the page is the clean-up of the attempt of greatest trimmed length (the *)
(* earliest among equals); a page whose attempts all throw or give blank   *)
(* text gives no block, and the pages after it still give theirs.          *)
(***************************************************************************)
\* Attempt k on page n throws under the plan.
AttemptThrows(n, k) == plan.key = <<"ocr", "recognize", 10 * n + k>>

AttemptScore(n, k) ==
    IF AttemptThrows(n, k) THEN 0 ELSE TrimmedLength(Page(file.pages[n]).ocr[k])

\* The clean-up of the earliest attempt of greatest score, nothing when every
\* attempt scores zero.
ExpectedOcrText(n) ==
    IF \A k \in 1..4 : AttemptScore(n, k) = 0 THEN <<>>
    ELSE CleanedOcrTexts[
             Page(file.pages[n]).ocr[
                 CHOOSE k \in 1..4 :
                     /\ \A j \in 1..4 : AttemptScore(n, j) <= AttemptScore(n, k)
                     /\ \A j \in 1..(k - 1) : AttemptScore(n, j) < AttemptScore(n, k)]]

RECURSIVE ExpectedOcrOutput(_)
\* The blocks of pages 1..n.
ExpectedOcrOutput(n) ==
    IF n = 0 THEN <<>>
    ELSE ExpectedOcrOutput(n - 1)
           \o (IF ExpectedOcrText(n) # <<>>
               THEN Block(OcrPageHeader(n), ExpectedOcrText(n)) ELSE <<>>)

\* No request of the OCR pass other than a recognition attempt throws.
OnlyAttemptsThrow == ~plan.free /\ (plan.key[1] = "ocr" => plan.key[2] = "recognize")

C22_BestOfFourAttempts ==
    OnlyAttemptsThrow /\ passName = "ocr" /\ promise = "resolved" =>
        promiseValue = Trim(ExpectedOcrOutput(numPages))

\* The OCR pass has ended over two scanned pages, the second attempt on page 1
\* having thrown: page 1 gives the text of its fourth attempt.
C22_Witness ==
    /\ passName = "ocr" /\ promise = "resolved"
    /\ file.pages = <<"scanned", "scanned">>
    /\ plan.key = <<"ocr", "recognize", 12>>

(***************************************************************************)
(* C23.  Within one call at most one page render or recognition attempt is *)
(* in flight: an attempt starts only in the step that ends the attempt     *)
(* before it on the same page (the first, the render of the page), and the *)
(* pass moves to page N + 1 only when the four attempts on page N have     *)
(* ended or page N was given up before its attempts.                       *)
(***************************************************************************)
\* The render or the recognition attempt the OCR pass is waiting for.
OcrInFlight ==
    IF passName = "ocr" /\ ppc = "render" THEN {<<"render", pageNum, 0>>}
    ELSE IF passName = "ocr" /\ ppc = "recognize" THEN {<<"recognize", pageNum, ocrPass>>}
    ELSE {}

C23_OneAtATime ==
    [][passName = "ocr" /\ passName' = "ocr" =>
          /\ \A op \in OcrInFlight' \ OcrInFlight :
                /\ op[2] = pageNum
                /\ op[1] = "render" => OcrInFlight = {}
                /\ op[1] = "recognize" /\ op[3] = 1 => OcrInFlight = {<<"render", pageNum, 0>>}
                /\ op[1] = "recognize" /\ op[3] > 1 =>
                      OcrInFlight = {<<"recognize", pageNum, op[3] - 1>>}
          /\ pageNum' # pageNum =>
                /\ pageNum' = pageNum + 1
                /\ OcrInFlight' = {}
                /\ OcrInFlight \subseteq {<<"recognize", pageNum, 4>>, <<"render", pageNum, 0>>}]_vars

\* Page 2 is being rendered after page 1 has given its text.
C23_Witness ==
    /\ OcrInFlight = {<<"render", 2, 0>>}
    /\ fullText # <<>>

(***************************************************************************)
(* C24.  For a file handled as a standalone image, extractText opens no    *)
(* PDF document, renders nothing, reads the file once and runs recognition *)
(* once; it returns the text of that recognition trimmed, or the empty     *)
(* string when the read or the recognition fails.                          *)
(***************************************************************************)
ImageFails ==
    plan.key \in {<<"image", "readError", 0>>, <<"image", "readThrow", 0>>,
                  <<"image", "recognize", 0>>}

C24_ImageSinglePass ==
    branch = "image" =>
        /\ pdf = "none"
        /\ invoked = <<"image">>
        /\ passName \in {"image", "none"}
        /\ ppc \in {"read", "recognize", "settled", "idle"}
        /\ reads <= 1
        /\ ppc = "recognize" => reads = 1
        /\ pc = "done" /\ ~plan.free =>
              /\ outcome = "fulfilled"
              /\ result = IF ImageFails THEN <<>> ELSE Trim(file.image)

\* The call has returned the recognised text of an image without the blanks
\* around it.
C24_Witness ==
    /\ branch = "image" /\ pc = "done"
    /\ result # <<>> /\ result # file.image

(***************************************************************************)
(* C25.  No string extractText returns for a PDF has both a header         *)
(* '--- Page N ---' and a header '--- Page N (OCR) ---': the output of the *)
(* OCR pass has only OCR headers, the output of the primary and the        *)
(* alternative pass only plain ones, and the result is one of them.        *)
(***************************************************************************)
\* s occurs in text.
Occurs(s, text) ==
    \E i \in 1..(Len(text) - Len(s) + 1) : SubSeq(text, i, i + Len(s) - 1) = s

PlainHeaderText(n) ==
    <<"-", "-", "-", " ", "P", "a", "g", "e", " ">> \o NumStr(n) \o <<" ", "-", "-", "-">>
OcrHeaderText(n) ==
    <<"-", "-", "-", " ", "P", "a", "g", "e", " ">> \o NumStr(n)
      \o <<" ", "(", "O", "C", "R", ")", " ", "-", "-", "-">>

HasPlainHeader(text) == \E n \in 1..(MaxPages + 1) : Occurs(PlainHeaderText(n), text)
HasOcrHeader(text) == \E n \in 1..(MaxPages + 1) : Occurs(OcrHeaderText(n), text)

C25_OneKindOfHeader ==
    /\ pc = "done" /\ branch = "pdf" => ~(HasPlainHeader(result) /\ HasOcrHeader(result))
    /\ promise = "resolved" /\ passName = "ocr" => ~HasPlainHeader(promiseValue)
    /\ promise = "resolved" /\ passName \in {"primary", "alt"} => ~HasOcrHeader(promiseValue)

\* The text-layer passes and the OCR pass have both given text for the page, and
\* the call has returned the text of the OCR pass.
C25_Witness ==
    /\ pc = "done" /\ branch = "pdf" /\ ~caught
    /\ file.pages = <<"short">>
    /\ invoked = <<"primary", "alt", "ocr">>
    /\ HasOcrHeader(result)

(***************************************************************************)
(* C26.  In the output of the general clean-up no letter, of either case,  *)
(* stands immediately before or after a digit.                             *)
(***************************************************************************)
Letter == Lower \cup Upper

C26_LettersApartFromDigits ==
    input # <<>> /\ input.fn = "cleanExtractedText" /\ output.done =>
        \A i \in 1..(Len(output.value) - 1) :
            /\ ~(output.value[i] \in Letter /\ output.value[i + 1] \in Digit)
            /\ ~(output.value[i] \in Digit /\ output.value[i + 1] \in Letter)

\* A text with a digit right after an upper-case letter has been cleaned.
C26_Witness ==
    /\ input # <<>> /\ input.fn = "cleanExtractedText" /\ output.done
    /\ input.arg = <<"B", "1">>

(***************************************************************************)
(* C27.  The page text returned by processTextContent does not depend on   *)
(* the positions of the runs: for every list of runs it is the general     *)
(* cleanup of the plain join, the non-blank runs in the order they were    *)
(* delivered with one space between them.                                  *)
(***************************************************************************)
RECURSIVE PlainJoin(_)
PlainJoin(items) ==
    IF items = <<>> THEN <<>>
    ELSE LET rest == PlainJoin(Tail(items))
             run == items[1]
         IN  IF ~(run.hasStr /\ Trim(run.str) # <<>>) THEN rest
             ELSE IF rest = <<>> THEN run.str
             ELSE run.str \o <<" ">> \o rest

C27_PositionsIgnored ==
    input # <<>> /\ input.fn = "processTextContent" /\ output.done =>
        output.value = cleanExtractedText(PlainJoin(input.arg))

\* A page has been processed whose position-sorted candidate differs from
\* the plain join.
C27_Witness ==
    /\ input # <<>> /\ input.fn = "processTextContent" /\ output.done
    /\ enhancedText(input.arg) # PlainJoin(input.arg)
    /\ Len(enhancedText(input.arg)) = Len(PlainJoin(input.arg))

(***************************************************************************)
(* C28.  Within one call of extractText the OCR pass over the document     *)
(* (extractFromPDFWithOCR) is invoked at most once, also when the quick    *)
(* check of a large file counted no runs and the OCR result is short.      *)
(***************************************************************************)
C28_OcrAtMostOnce == Occurrences(invoked, "ocr") <= 1

\* The OCR pass has run first on a large file and resolved with a text of
\* fewer than 50 characters, and the alternative pass has been invoked.
C28_Witness ==
    /\ file.size > TenMiB
    /\ Len(invoked) >= 3 /\ invoked[2] = "ocr" /\ invoked[3] = "alt"
    /\ Len(extractedText) < OCR_BELOW

(***************************************************************************)
(* C29.  Every page text emitted by the primary, alternative and OCR       *)
(* passes is in whitespace normal form: no newline, no two consecutive     *)
(* whitespace characters, no whitespace at either end.  Hence in the       *)
(* result of a PDF a newline occurs only next to a page header: right      *)
(* after one, right before one, or before the newline that opens one.      *)
(***************************************************************************)
NormalForm(text) ==
    /\ \A i \in 1..Len(text) : text[i] # "\n"
    /\ \A i \in 1..(Len(text) - 1) : ~(text[i] \in WS /\ text[i + 1] \in WS)
    /\ text # <<>> => text[1] \notin WS /\ text[Len(text)] \notin WS

\* text[i..] starts with s.
StartsAt(text, i, s) ==
    i >= 1 /\ i + Len(s) - 1 <= Len(text) /\ SubSeq(text, i, i + Len(s) - 1) = s

HeaderOpens(text, i) ==
    \E n \in 1..(MaxPages + 1) :
        StartsAt(text, i, PlainHeaderText(n)) \/ StartsAt(text, i, OcrHeaderText(n))
HeaderCloses(text, i) ==
    \E n \in 1..(MaxPages + 1) :
        \/ StartsAt(text, i - Len(PlainHeaderText(n)) + 1, PlainHeaderText(n))
        \/ StartsAt(text, i - Len(OcrHeaderText(n)) + 1, OcrHeaderText(n))

NewlinesAroundHeaders(text) ==
    \A i \in 1..Len(text) :
        text[i] = "\n" =>
            \/ HeaderCloses(text, i - 1)
            \/ HeaderOpens(text, i + 1)
            \/ StartsAt(text, i + 1, <<"\n">>) /\ HeaderOpens(text, i + 2)

\* The page text of the block that a step appends to fullText under header h.
EmittedText(h) == SubSeq(fullText', Len(fullText) + Len(h) + 3, Len(fullText') - 1)

C29_WhitespaceNormalForm ==
    /\ [][fullText' # fullText /\ fullText' # <<>> =>
            \E h \in {PlainHeaderText(pageNum), OcrHeaderText(pageNum)} :
                /\ fullText' = fullText \o <<"\n">> \o h \o <<"\n">> \o EmittedText(h) \o <<"\n">>
                /\ EmittedText(h) # <<>>
                /\ NormalForm(EmittedText(h))]_vars
    /\ [](pc = "done" /\ branch = "pdf" => NewlinesAroundHeaders(result))

\* The call has returned the text of the primary pass for two pages whose
\* longest candidate has three whitespace characters in a row.
C29_Witness ==
    /\ pc = "done" /\ branch = "pdf" /\ ~caught
    /\ file.pages = <<"short", "short">>
    /\ Occurs(<<" ", " ", " ">>, rawText(PageShort.marked))
    /\ result = Trim(Block(PageHeader(1), ProcessedTexts[PageShort.marked])
                       \o Block(PageHeader(2), ProcessedTexts[PageShort.marked]))

(***************************************************************************)
(* C30.  Whenever deleteDocument resolves, the record of the document has  *)
(* been removed from the database and the file of the document is no       *)
(* longer in storage; whenever it rejects because the deletion from        *)
(* storage threw, the record is left untouched.  (Storage holds no file    *)
(* but that of the document.)                                              *)
(***************************************************************************)
HasRecord(db, document) == \E i \in 1..Len(db) : db[i] = document

C30_DeleteRemovesBoth ==
    /\ deletion.pc = "resolved" =>
          /\ ~\E i \in 1..Len(database) : database[i].id = deletion.document.id
          /\ storage = {}
    /\ deletion.pc = "rejected" /\ deletion.threw = "deleteObject" =>
          HasRecord(database, deletion.document)

\* deleteDocument has resolved for a document whose file was in storage when it
\* was called, without having deleted an object.
C30_Witness ==
    /\ deletion.pc = "resolved"
    /\ database = <<>>
    /\ storage = {UploadPath(1, deletion.document.fileName)}
    /\ deletion.document.storagePath = UploadPath(1, deletion.document.fileName)

====
